---- MODULE Spec2Model ----
(***************************************************************************)
(* Shared camera stream hub of backend/app/api/routes/camera.py:           *)
(* _SharedStream, SharedStreamHub (get_or_start, restart, stop,            *)
(* _run_producer, make_viewer._viewer).                                    *)
(*                                                                         *)
(* The hub runs on one asyncio event loop.  A task runs without            *)
(* interruption from one suspension point (an await that blocks, a yield   *)
(* of a generator) to the next, so every action of Spec and SpecViewers is *)
(* one such run.  The hub lock is never held across a suspension point, so *)
(* acquiring it never blocks and a locked section is part of the run it    *)
(* occurs in.                                                              *)
(*                                                                         *)
(* SpecInterleaved is SpecViewers with the producer's publication (frame   *)
(* write, sequence increment) and the viewer's snapshot (sequence read,    *)
(* frame read) split into single statements that interleave freely.        *)
(*                                                                         *)
(* SpecLock runs the hub's calls statement by statement with the lock      *)
(* explicit; SpecStop follows a stop call through its wait to its return.  *)
(*                                                                         *)
(* SpecJpeg runs the transcoder source's JPEG parser, SpecHeader the grid  *)
(* record header, SpecSources both frame sources against the clock.        *)
(* SpecGrid, SpecConsumers and SpecAdmit add the request handlers          *)
(* (camera_grid_stream, camera_stream) to the hub; SpecStartFailure adds   *)
(* a source that cannot start.  SpecGridEnd adds the grid client's         *)
(* disconnection, SpecGridFailure a failing source under the grid,         *)
(* SpecStatus the status dicts the sources and _ensure_producer write,     *)
(* SpecJpegAny runs the parser on arbitrary bytes, and SpecLockFair runs   *)
(* the hub's calls with a running task never left waiting for the          *)
(* processor.  SpecConsumers, SpecAdmit and SpecLockFair let no time pass. *)
(*                                                                         *)
(* Time is in milliseconds.                                                *)
(***************************************************************************)
EXTENDS Integers, Sequences, FiniteSets, TLC

\* ---- bounds of the model ----
NumCams == 2        \* camera (printer) ids 1..NumCams
MaxInst == 2        \* _SharedStream objects ever constructed
MaxFrames == 2      \* frames a producer publishes into one instance
NumViewers == 1     \* viewer generators ever made
TickStep == 31000   \* the clock advances in steps of TickStep ms
MaxTime == 62000    \* the clock stops advancing at MaxTime
MaxGarbage == 1     \* bytes before the first frame of a parser input
MaxBody == 1        \* bytes between the markers of a frame of a parser input
MaxPartial == 1     \* bytes after the start marker of the trailing partial frame
MaxChunk == 3       \* bytes one read of the transcoder's output returns
MaxInput == 6       \* bytes of an arbitrary parser input
MaxReads == 6       \* reads of the chamber image connection
StartClock == 1000  \* time.monotonic() when a source starts, ms
ReadWaitShort == 50 \* a read that returns data after ReadWaitShort ms
ReadWaitLong == 200 \* a read that returns data after ReadWaitLong ms

\* ---- program constants ----
IDLE_TIMEOUT == 30000      \* SharedStreamHub.IDLE_TIMEOUT = 30.0 s
STOP_TIMEOUT == 5000       \* stop: wait_for(..., timeout=5.0)
READ_TIMEOUT == 30000      \* read_next_chamber_frame(reader, timeout=30.0)
STALL_LIMIT == 3           \* if consecutive_timeouts >= 3: break

Cams == 1..NumCams

\* printer ids a request can name: the cameras the hub serves, a printer
\* with an enabled external camera, and an id with no row in the database
ExternalId == NumCams + 1
UnknownId == NumCams + 2
Ids == 1..(NumCams + 2)
Insts == 1..MaxInst
Viewers == 1..NumViewers
Keys == {"5-15-0.5", "10-5-1.0"}     \* params_key: "fps-quality-scale"
FpsChoices == {10}                   \* fps handed to make_viewer

NoInst == 0          \* None as a registry lookup result / entry reference
NoFrame == 0         \* None in _SharedStream.frame
NoError == ""        \* None in _SharedStream.error
NoWait == 0          \* no stop call is waiting for the instance's task

VARIABLES
    now,        \* time.monotonic()
    nextInst,   \* identity of the next _SharedStream object to be constructed
    streams,    \* SharedStreamHub._streams : printer id -> instance (NoInst = no key)
    entries,    \* the fields of every _SharedStream object
    task,       \* the producer task of every instance (entry.task)
    viewers,    \* the viewer generators made by make_viewer
    waits,      \* the stop calls suspended in wait_for, by the instance they stopped
    exec,       \* SpecLock: the task running between two suspension points, its
                \* statement, and the holder of SharedStreamHub._lock
    ret,        \* the hub call that returned in the step leading here (NoRet: none did)
    jp,         \* the frame parser of generate_rtsp_mjpeg_stream
    hdr,        \* a record header of camera_grid_stream.generate and its decoding
    cham,       \* the read loop of generate_chamber_mjpeg_stream
    grid,       \* camera_grid_stream: a grid request and its generator
    resp,       \* the HTTP response a route handler gave in the step leading here
    status      \* _stream_start_times, _last_frames, _last_frame_times by printer id

\* the state of the hub
hub == <<now, nextInst, streams, entries, task, viewers, waits, exec, ret>>

hub_but_ret == <<now, nextInst, streams, entries, task, viewers, waits, exec>>

\* the state of the frame sources and request handlers, which the hub's
\* specifications leave alone
side == <<jp, hdr, cham, grid, resp, status>>

side_but_status == <<jp, hdr, cham, grid, resp>>

vars == <<hub, side>>

\* an object not constructed yet
BlankEntry ==
    [cam |-> 0, params_key |-> "", alive |-> FALSE, frame |-> NoFrame,
     frame_seq |-> 0, error |-> NoError, last_accessed |-> 0]

\* _SharedStream.__init__ (cam: the printer id the hub creates it for)
SharedStream(c, k) ==
    [cam |-> c, params_key |-> k, alive |-> TRUE, frame |-> NoFrame,
     frame_seq |-> 0, error |-> NoError, last_accessed |-> now]

\* the objects constructed so far
Created == 1..(nextInst - 1)

\* asyncio.Task running _run_producer.
\*   pc: "none"     no task (slot blank)
\*       "pending"  created by create_task, first step not yet run
\*       "running"  suspended in "async for frame in source": the source
\*                  generator is connecting or waiting for data
\*       "publish"  between the two statements of a publication (SpecInterleaved only)
\*       "ending"   still in "async for": the source gave up (unavailable,
\*                  stalled, broken) and is suspended in its own finally block
\*       "stopping" still in "async for": the source caught the CancelledError
\*                  of task.cancel() and is suspended in its own finally block
\*       "closing"  in the producer's finally block, suspended in
\*                  "await source.aclose()" (the source was suspended at a yield)
\*       "done"     finished
\*   cancel: task.cancel() was called and CancelledError is not yet delivered
\*   published: number of frames written into entry.frame (history)
\*   steps: the steps of the finally block completed so far, in order (history)
\*   found: what the identity check of step 3 found in the registry: "self",
\*       "other" (another instance), "none" (no entry); "" while not run (history)
\*   start_failed: the source could not start and yielded its error text
\*       instead of frames (338-345, 438-442, 515-521) (history)
\*   tail: the byte the RTSP source keeps of a chunk without a JPEG start
\*       marker (line 545): "ff", "xx" (any other byte), "" (buffer empty)
BlankTask ==
    [pc |-> "none", cancel |-> FALSE, published |-> 0, steps |-> <<>>, found |-> "",
     start_failed |-> FALSE,
     tail |-> ""]
NewTask ==
    [pc |-> "pending", cancel |-> FALSE, published |-> 0, steps |-> <<>>, found |-> "",
     start_failed |-> FALSE,
     tail |-> ""]

Cancel_Noop(t) == t

\* task.cancel(): no effect on a finished task
Cancel(t) == IF t.pc \in {"none", "done"} THEN t ELSE [t EXCEPT !.cancel = TRUE]

\* make_viewer._viewer: the entry it closes over and its locals.
\*   pc: "none" not made, "poll" suspended (not started / sleep / after a yield),
\*       "readseq" between the read of frame_seq and of frame (SpecInterleaved only),
\*       "done" loop left or generator abandoned
\*   seq, frame: the snapshot of the last iteration
\*   yields, out_seq, out_frame: number of chunks yielded, sequence number and
\*       frame of the last one (history)
\*   last_iter: time of the last loop iteration, 0 before the first (history)
BlankViewer ==
    [entry |-> NoInst, pc |-> "none", frame_interval |-> 0, seen_seq |-> 0,
     last_yield |-> 0, seq |-> 0, frame |-> NoFrame,
     yields |-> 0, out_seq |-> 0, out_frame |-> NoFrame, last_iter |-> 0]

\* make_viewer: frame_interval = 1.0 / fps if fps > 0 else 0.1   (ms)
FrameInterval(fps) == IF fps > 0 THEN 1000 \div fps ELSE 100

NewViewer(entry, fps) ==
    [BlankViewer EXCEPT !.entry = entry, !.pc = "poll",
                        !.frame_interval = FrameInterval(fps)]

NoRet == [op |-> "none", cam |-> 0, key |-> "", inst |-> NoInst]

\* no task: nobody is running, nobody holds the lock
Nobody == "nobody"

\* every task is suspended and the lock is free
NoExec ==
    [who |-> Nobody, lock |-> Nobody, op |-> "none", cam |-> 0, key |-> "",
     entry |-> NoInst, line |-> 0]

\* the clock starts above 0: time.monotonic() is far above any frame interval
HubInit ==
    /\ now = TickStep
    /\ nextInst = 1
    /\ streams = [c \in Ids |-> NoInst]
    /\ entries = [i \in Insts |-> BlankEntry]
    /\ task = [i \in Insts |-> BlankTask]
    /\ viewers = [v \in Viewers |-> BlankViewer]
    /\ waits = [i \in Insts |-> NoWait]
    /\ exec = NoExec
    /\ ret = NoRet

\* no parser runs
NoJpeg ==
    [pc |-> "none", garbage |-> <<>>, first |-> <<>>, second |-> <<>>, partial |-> <<>>,
     input |-> <<>>, rest |-> <<>>, buffer |-> <<>>, out |-> <<>>, bytewise |-> TRUE,
     fps |-> 0, clock |-> 0, times |-> <<>>]

\* no header is being encoded
NoHdr == [pc |-> "none"]

\* no chamber source runs
NoCham ==
    [pc |-> "none", fps |-> 0, consecutive_timeouts |-> 0, last_frame_time |-> 0,
     clock |-> 0, log |-> <<>>, times |-> <<>>]

\* no record emitted
NoRecord == [pid |-> 0, inst |-> NoInst, seq |-> 0, frame |-> NoFrame]

\* camera_grid_stream and its generator: no request was made.
\*   pc: "none"; "ensuring" the handler is suspended in _ensure_producer for
\*       ids[pos]; "loop" the generator is suspended between two poll cycles
\*       (not started, is_disconnected, sleep); "mid" it is suspended at the
\*       yield of a record, snap being the rest of list(entries.items());
\*       "done" the request was rejected or the generator is finished
\*   order, entry: the keys of the dict entries in insertion order, its values
\*   emits, out: number of records yielded and the last one (history)
\*   sent: the frame_seq of the last record yielded for each id (history)
\*   gone: the client has disconnected
NoGrid ==
    [pc |-> "none", ids |-> <<>>, pos |-> 0, key |-> "", force |-> FALSE,
     order |-> <<>>, entry |-> [id \in Ids |-> NoInst], seen_seqs |-> [id \in Ids |-> 0],
     snap |-> <<>>, now |-> 0, sent_any |-> FALSE, emits |-> 0, out |-> NoRecord,
     sent |-> [id \in Ids |-> 0], gone |-> FALSE]

\* an HTTP response: its status, and what serves its body ("hub": a viewer
\* of the hub or the grid generator; "external": the external camera stream)
Resp(code, via) == [status |-> code, via |-> via]

\* no response
NoResp == Resp(0, "")

\* no key of a printer in the three dicts (start and frame_time -1, frame
\* NoInst: key absent);  frame is the instance whose source wrote the entry
NoStat == [start |-> -1, frame |-> NoInst, frame_time |-> -1]

NoStatus == [c \in Cams |-> NoStat]

\* the side state at rest, but for the variables named in S
SideIdle(S) ==
    /\ IF "jp" \in S THEN TRUE ELSE jp = NoJpeg
    /\ IF "hdr" \in S THEN TRUE ELSE hdr = NoHdr
    /\ IF "cham" \in S THEN TRUE ELSE cham = NoCham
    /\ IF "grid" \in S THEN TRUE ELSE grid = NoGrid
    /\ IF "resp" \in S THEN TRUE ELSE resp = NoResp
    /\ IF "status" \in S THEN TRUE ELSE status = NoStatus

Init ==
    /\ HubInit
    /\ SideIdle({})

\* ---------------------------------------------------------------------
\* SharedStreamHub
\* ---------------------------------------------------------------------

\* SharedStreamHub.is_active
is_active(c) == streams[c] # NoInst /\ entries[streams[c]].alive

Reusable_Never(entry, k) == FALSE

Reusable_SameKey(entry, k) ==
    entry # NoInst /\ entries[entry].alive /\ entries[entry].params_key = k

Reusable_IgnoresAlive(entry, k) == entry # NoInst

\* line 165 (and 182): "entry is not None and entry.alive"; get_or_start does
\* not look at the params_key k it was called with
Reusable(entry, k) == entry # NoInst /\ entries[entry].alive

SameParams_Never(e, k) == FALSE

\* line 183: old.params_key == params_key
SameParams(e, k) == e.params_key = k

Touch_Noop(e) == e

\* lines 166, 185, 217: entry.last_accessed = time.monotonic()
Touch(e) == [e EXCEPT !.last_accessed = now]


Retire_KeepsAlive(e) == e

\* line 193: old.alive = False
Retire(e) == [e EXCEPT !.alive = FALSE]

NewEntry_Reuse(c) == IF streams[c] # NoInst THEN streams[c] ELSE nextInst

\* lines 169, 196: _SharedStream(...) constructs a new object, whatever the
\* registry holds for c
NewEntry(c) == nextInst

\* lines 169-171 / 196-198: construct an entry, register it, create its task
StartProducer(c, k, ents, tks) ==
    /\ nextInst <= MaxInst
    /\ nextInst' = nextInst + 1
    /\ streams' = [streams EXCEPT ![c] = NewEntry(c)]
    /\ entries' = [ents EXCEPT ![NewEntry(c)] = SharedStream(c, k)]
    /\ task' = [tks EXCEPT ![NewEntry(c)] = NewTask]

\* SharedStreamHub.get_or_start
get_or_start(c, k) ==
    LET entry == streams[c] IN
    IF Reusable(entry, k)
    THEN /\ entries' = [entries EXCEPT ![entry] = Touch(entries[entry])]
         /\ ret' = [op |-> "get_or_start", cam |-> c, key |-> k, inst |-> entry]
         /\ UNCHANGED <<nextInst, streams, task>>
    ELSE /\ StartProducer(c, k, entries, task)
         /\ ret' = [op |-> "get_or_start", cam |-> c, key |-> k, inst |-> NewEntry(c)]

\* SharedStreamHub.restart
restart(c, k) ==
    LET old == streams[c] IN
    IF old # NoInst /\ entries[old].alive
    THEN IF SameParams(entries[old], k)
         THEN /\ entries' = [entries EXCEPT ![old] = Touch(entries[old])]
              /\ ret' = [op |-> "restart", cam |-> c, key |-> k, inst |-> old]
              /\ UNCHANGED <<nextInst, streams, task>>
         ELSE /\ StartProducer(c, k, [entries EXCEPT ![old] = Retire(entries[old])],
                                     [task EXCEPT ![old] = Cancel(task[old])])
              /\ ret' = [op |-> "restart", cam |-> c, key |-> k, inst |-> NewEntry(c)]
    ELSE /\ StartProducer(c, k, entries, task)
         /\ ret' = [op |-> "restart", cam |-> c, key |-> k, inst |-> NewEntry(c)]

StopMarks_ResetsSeq(e) == [e EXCEPT !.alive = FALSE, !.frame = NoFrame, !.frame_seq = 0]

StopMarks_KeepsFrame(e) == [e EXCEPT !.alive = FALSE]

\* lines 302-303: entry.alive = False; entry.frame = None
StopMarks(e) == [e EXCEPT !.alive = FALSE, !.frame = NoFrame]

\* SharedStreamHub.stop, lines 297-308: up to its return (no entry: False; the
\* task is done: True) or to its suspension in wait_for
stop(c) ==
    LET entry == streams[c] IN
    IF entry = NoInst
    THEN /\ ret' = [op |-> "stop", cam |-> c, key |-> "", inst |-> NoInst]
         /\ UNCHANGED <<streams, entries, task>>
    ELSE /\ streams' = [streams EXCEPT ![c] = NoInst]
         /\ entries' = [entries EXCEPT ![entry] = StopMarks(entries[entry])]
         /\ task' = [task EXCEPT ![entry] = Cancel(task[entry])]
         /\ ret' = IF task[entry].pc = "done"
                   THEN [op |-> "stop", cam |-> c, key |-> "", inst |-> entry]
                   ELSE NoRet

\* line 305-308: the call suspends in wait_for when it popped an entry whose
\* task is not done; waits records the time
stop_suspends(c) ==
    IF streams[c] # NoInst /\ task[streams[c]].pc # "done"
    THEN [waits EXCEPT ![streams[c]] = now]
    ELSE waits

\* stop returns True when it popped an entry (line 311), False otherwise (300)
StopResult(r) == r.inst # NoInst

\* SharedStreamHub.stop, lines 308-311: wait_for returns because the task has
\* finished or raises TimeoutError after 5 s; either way stop returns True
stop_resumes(i) ==
    /\ waits[i] # NoWait
    /\ task[i].pc = "done" \/ now - waits[i] >= STOP_TIMEOUT
    /\ waits' = [waits EXCEPT ![i] = NoWait]
    /\ ret' = [op |-> "stop", cam |-> entries[i].cam, key |-> "", inst |-> i]

\* ---------------------------------------------------------------------
\* SharedStreamHub._run_producer
\* ---------------------------------------------------------------------

PublishOrder_Swapped == <<"frame_seq", "frame">>

\* lines 260-261: the two statements of a publication, in program order
PublishOrder == <<"frame", "frame_seq">>

\* the frame the source delivers next: frames are numbered as they are written
NextFrame(t) == t.published + 1

PublishEntry_SetsFlag(e, t, stmt) ==
    IF stmt = "frame" THEN [e EXCEPT !.frame = NextFrame(t)]
                      ELSE [e EXCEPT !.frame_seq = 1]

\* one statement of a publication applied to the entry
PublishEntry(e, t, stmt) ==
    IF stmt = "frame" THEN [e EXCEPT !.frame = NextFrame(t)]
                      ELSE [e EXCEPT !.frame_seq = @ + 1]

PublishTask(t, stmt) ==
    IF stmt = "frame" THEN [t EXCEPT !.published = @ + 1] ELSE t

Idle_Never(e) == FALSE

\* line 263: time.monotonic() - entry.last_accessed > self.IDLE_TIMEOUT
Idle(e) == now - e.last_accessed > IDLE_TIMEOUT


MarkDead_Counts(e) == [e EXCEPT !.alive = FALSE, !.frame = NoFrame, !.frame_seq = @ + 1]
\* finally, step 1 (lines 280-281)
MarkDead(e) == [e EXCEPT !.alive = FALSE, !.frame = NoFrame]

Unregister_Nothing(i) == streams

Unregister_Everything(i) == [c \in Ids |-> NoInst]

Unregister_ByKey(i) ==
    [c \in Ids |-> IF c = entries[i].cam THEN NoInst ELSE streams[c]]

\* finally, step 3 (lines 290-292): identity check, then delete
Unregister(i) ==
    [c \in Ids |-> IF c = entries[i].cam /\ streams[c] = i THEN NoInst ELSE streams[c]]

\* the steps of the finally block in program order: 1 mark dead (280-281),
\* 2 source.aclose() completed (283-287), 3 registry removal (290-292)
CleanupOrder == <<1, 2, 3>>

\* line 291: self._streams.get(printer_id) is entry
RegistryHolds(i) ==
    IF streams[entries[i].cam] = i THEN "self"
    ELSE IF streams[entries[i].cam] = NoInst THEN "none" ELSE "other"

\* the task of instance i after completing the steps from..to of the finally block
Cleaned(i, t, from, to) ==
    [t EXCEPT !.steps = @ \o SubSeq(CleanupOrder, from, to),
              !.found = IF 3 \in {CleanupOrder[n] : n \in from..to} THEN RegistryHolds(i) ELSE @]

\* The finally block run without suspension: the source generator has finished
\* (it returned or raised), so source.aclose() completes at once.
CleanupAtOnce(i, e) ==
    /\ entries' = [entries EXCEPT ![i] = MarkDead(e)]
    /\ streams' = Unregister(i)
    /\ task' = [task EXCEPT ![i] = [Cleaned(i, task[i], 1, 3) EXCEPT !.pc = "done", !.cancel = FALSE]]

\* first step of the task: source = starter_fn(); suspend at the first __anext__
ProducerStart(i) ==
    /\ task[i].pc = "pending" /\ ~task[i].cancel
    /\ task' = [task EXCEPT ![i].pc = "running"]
    /\ ret' = NoRet
    /\ UNCHANGED <<now, nextInst, streams, entries, viewers, waits, exec, side>>

\* a task cancelled before its first step never enters the coroutine body
ProducerCancelledBeforeStart(i) ==
    /\ task[i].pc = "pending" /\ task[i].cancel
    /\ task' = [task EXCEPT ![i].pc = "done", ![i].cancel = FALSE]
    /\ ret' = NoRet
    /\ UNCHANGED <<now, nextInst, streams, entries, viewers, waits, exec, side>>

\* the frames of a watched instance are bounded; the frame that finds the
\* instance idle ends the producer and is always delivered
FrameAllowed(i) ==
    (entries[i].alive /\ ~Idle(entries[i])) => task[i].published < MaxFrames

\* the source yields a frame: lines 256-272, then finally step 1 after a break
\* and suspension in source.aclose() (the source is suspended at its yield)
FrameArrives(i) ==
    /\ task[i].pc = "running" /\ ~task[i].cancel
    /\ FrameAllowed(i)
    /\ IF ~entries[i].alive
       THEN /\ entries' = [entries EXCEPT ![i] = MarkDead(entries[i])]
            /\ task' = [task EXCEPT ![i] = [Cleaned(i, task[i], 1, 1) EXCEPT !.pc = "closing"]]
       ELSE LET e1 == PublishEntry(entries[i], task[i], PublishOrder[1])
                t1 == PublishTask(task[i], PublishOrder[1])
                e2 == PublishEntry(e1, t1, PublishOrder[2])
                t2 == PublishTask(t1, PublishOrder[2])
            IN IF Idle(e2)
               THEN /\ entries' = [entries EXCEPT ![i] = MarkDead(e2)]
                    /\ task' = [task EXCEPT ![i] = [Cleaned(i, t2, 1, 1) EXCEPT !.pc = "closing"]]
               ELSE /\ entries' = [entries EXCEPT ![i] = e2]
                    /\ task' = [task EXCEPT ![i] = t2]
    /\ ret' = NoRet
    /\ UNCHANGED <<now, nextInst, streams, viewers, waits, exec>>

ProducerFrame(i) == FrameArrives(i) /\ UNCHANGED side

\* the last byte of a chunk without a start marker
TailBytes == {"ff", "xx"}

\* The RTSP source reads a chunk that holds no JPEG start marker (532-546): it
\* keeps the last byte b, yields nothing and reads again; the producer stays
\* suspended in __anext__.
SourceReadsOn(i, b) ==
    /\ task[i].pc = "running" /\ ~task[i].cancel
    /\ task' = [task EXCEPT ![i].tail = b]
    /\ ret' = NoRet
    /\ UNCHANGED <<now, nextInst, streams, entries, viewers, waits, exec, side>>

\* The source gives up inside __anext__: connection failed or transcoder
\* missing (338-345, 439-442, 513-521, after yielding its text part as a
\* frame), read timeouts (366-371, 575-577), connection closed or output
\* ended (362-364, 534-536), or an exception it catches itself (401, 592).
\* It runs its own finally block (403-420, 594-619) and suspends there.
GivesUp(i) ==
    /\ task[i].pc = "running" /\ ~task[i].cancel
    /\ task' = [task EXCEPT ![i].pc = "ending"]
    /\ ret' = NoRet
    /\ UNCHANGED <<now, nextInst, streams, entries, viewers, waits, exec>>

SourceGivesUp(i) == GivesUp(i) /\ UNCHANGED side

\* CancelledError is thrown into the source's await; the source catches it
\* (397, 578, 588), runs its own finally block and suspends there
CatchesCancel(i) ==
    /\ task[i].pc = "running" /\ task[i].cancel
    /\ task' = [task EXCEPT ![i].pc = "stopping", ![i].cancel = FALSE]
    /\ ret' = NoRet
    /\ UNCHANGED <<now, nextInst, streams, entries, viewers, waits, exec>>

SourceCatchesCancel(i) == CatchesCancel(i) /\ UNCHANGED side

\* the source generator returns (StopAsyncIteration): the loop ends without
\* an exception, the finally block runs at once
ProducerExhausted(i) ==
    /\ task[i].pc \in {"ending", "stopping"} /\ ~task[i].cancel
    /\ CleanupAtOnce(i, entries[i])
    /\ ret' = NoRet
    /\ UNCHANGED <<now, nextInst, viewers, waits, exec, side>>

\* the exceptions a source lets through (raised outside its try block, line
\* 337, or in its finally block)
SourceErrors == {"source error"}

RecordError_Drops(e, msg) == e

\* line 277: entry.error = str(e)
RecordError(e, msg) == [e EXCEPT !.error = msg]

\* the source raises msg: except Exception (275-277), the finally block at once
ProducerError(i, msg) ==
    /\ task[i].pc \in {"running", "ending", "stopping"} /\ ~task[i].cancel
    /\ CleanupAtOnce(i, RecordError(entries[i], msg))
    /\ ret' = NoRet
    /\ UNCHANGED <<now, nextInst, viewers, waits, exec, side>>

\* CancelledError comes out of __anext__ (thrown into the await of line 337,
\* outside the source's try block, or into an await of the source's finally
\* block): except CancelledError (273-274), the finally block at once
Cancelled(i) ==
    /\ task[i].pc \in {"running", "ending"} /\ task[i].cancel
    /\ CleanupAtOnce(i, entries[i])
    /\ ret' = NoRet
    /\ UNCHANGED <<now, nextInst, viewers, waits, exec>>

ProducerCancelled(i) == Cancelled(i) /\ UNCHANGED side

\* source.aclose() returned (or raised an Exception): finally step 3, task ends
ProducerClosed(i) ==
    /\ task[i].pc = "closing" /\ ~task[i].cancel
    /\ streams' = Unregister(i)
    /\ task' = [task EXCEPT ![i] = [Cleaned(i, task[i], 2, 3) EXCEPT !.pc = "done"]]
    /\ ret' = NoRet
    /\ UNCHANGED <<now, nextInst, entries, viewers, waits, exec, side>>

\* CancelledError delivered in "await source.aclose()": the source's finally
\* block does not catch it and it is not an Exception (286), so it leaves the
\* producer's finally block before step 3 and ends the task
ProducerCancelledInCleanup(i) ==
    /\ task[i].pc = "closing" /\ task[i].cancel
    /\ task' = [task EXCEPT ![i].pc = "done", ![i].cancel = FALSE]
    /\ ret' = NoRet
    /\ UNCHANGED <<now, nextInst, streams, entries, viewers, waits, exec, side>>

\* ---------------------------------------------------------------------
\* make_viewer._viewer
\* ---------------------------------------------------------------------

ViewerStep_ForgetsSeen(w, seq, frame) ==
    LET r == [w EXCEPT !.seq = seq, !.frame = frame, !.pc = "poll", !.last_iter = now] IN
    IF seq <= w.seen_seq THEN r
    ELSE IF frame = NoFrame THEN [r EXCEPT !.pc = "done"]
    ELSE IF now - w.last_yield < w.frame_interval THEN r
    ELSE [r EXCEPT !.last_yield = now,
                   !.yields = @ + 1, !.out_seq = seq, !.out_frame = frame]

ViewerStep_StopsOnAbsent(w, seq, frame) ==
    LET r == [w EXCEPT !.seq = seq, !.frame = frame, !.pc = "poll", !.last_iter = now] IN
    IF frame = NoFrame THEN [r EXCEPT !.pc = "done"]
    ELSE IF seq <= w.seen_seq THEN r
    ELSE IF now - w.last_yield < w.frame_interval THEN [r EXCEPT !.seen_seq = seq]
    ELSE [r EXCEPT !.seen_seq = seq, !.last_yield = now,
                   !.yields = @ + 1, !.out_seq = seq, !.out_frame = frame]

\* lines 224-244 with the snapshot (seq, frame) taken: the viewer after the
\* iteration.  A rate-limited iteration ("continue") runs into the next one,
\* which finds seq <= seen_seq and sleeps.
ViewerStep(w, seq, frame) ==
    LET r == [w EXCEPT !.seq = seq, !.frame = frame, !.pc = "poll", !.last_iter = now] IN
    IF seq <= w.seen_seq THEN r
    ELSE IF frame = NoFrame THEN [r EXCEPT !.pc = "done"]
    ELSE IF now - w.last_yield < w.frame_interval THEN [r EXCEPT !.seen_seq = seq]
    ELSE [r EXCEPT !.seen_seq = seq, !.last_yield = now,
                   !.yields = @ + 1, !.out_seq = seq, !.out_frame = frame]

LoopRuns_Always(e) == TRUE

\* line 214: while entry.alive
LoopRuns(e) == e.alive

\* one run of the loop from its suspension point to the next one (lines 215-244)
ViewerPoll(v) ==
    LET w == viewers[v]
        e == entries[w.entry]
    IN /\ w.pc = "poll"
       /\ IF ~LoopRuns(e)
          THEN /\ viewers' = [viewers EXCEPT ![v].pc = "done"]
               /\ UNCHANGED entries
          ELSE /\ entries' = [entries EXCEPT ![w.entry] = Touch(e)]
               /\ viewers' = [viewers EXCEPT ![v] = ViewerStep(w, e.frame_seq, e.frame)]
       /\ ret' = NoRet
       /\ UNCHANGED <<now, nextInst, streams, task, waits, exec, side>>

\* What the hub sees of an iteration of a consumer that holds entry i, a viewer
\* (lines 215-217) or the grid generator (lines 744-750): a live entry is touched.
ConsumerTouch(i) ==
    /\ entries[i].alive
    /\ entries[i].last_accessed # now
    /\ entries' = [entries EXCEPT ![i] = Touch(entries[i])]
    /\ ret' = NoRet
    /\ UNCHANGED <<now, nextInst, streams, task, viewers, waits, exec, side>>

\* the client goes away: the generator is not iterated any more (lines 874-878)
ViewerDisconnect(v) ==
    /\ viewers[v].pc = "poll"
    /\ viewers' = [viewers EXCEPT ![v].pc = "done"]
    /\ ret' = NoRet
    /\ UNCHANGED <<now, nextInst, streams, entries, task, waits, exec, side>>

\* ---------------------------------------------------------------------
\* callers of the hub
\* ---------------------------------------------------------------------

\* _ensure_producer as called by camera_grid_stream (lines 676-678, 722)
Ensures(c, k, force) ==
    /\ IF force THEN restart(c, k) ELSE get_or_start(c, k)
    /\ UNCHANGED <<now, viewers, waits, exec>>

EnsureProducer(c, k, force) == Ensures(c, k, force) /\ UNCHANGED side

\* camera_stream (lines 865-868): get_or_start, then make_viewer on its result
CameraStream(c, k, v, fps) ==
    /\ viewers[v].pc = "none"
    /\ get_or_start(c, k)
    /\ viewers' = [viewers EXCEPT ![v] = NewViewer(ret'.inst, fps)]
    /\ UNCHANGED <<now, waits, exec, side>>

\* stop_camera_stream calling _hub.stop, to its return or its suspension; the
\* resumption of a suspended call, which changes nothing of the hub, is not
\* followed
StopStream(c) ==
    /\ stop(c)
    /\ UNCHANGED <<now, nextInst, viewers, waits, exec, side>>

\* stop_camera_stream calling _hub.stop, a suspended call being followed to
\* its return (StopReturn)
StopStreamAwaited(c) ==
    /\ stop(c)
    /\ waits' = stop_suspends(c)
    /\ UNCHANGED <<now, nextInst, viewers, exec, side>>

\* a suspended _hub.stop call resumes and returns to stop_camera_stream
StopReturn(i) ==
    /\ stop_resumes(i)
    /\ UNCHANGED <<now, nextInst, streams, entries, task, viewers, exec, side>>

\* time passes
Tick ==
    /\ now + TickStep <= MaxTime
    /\ now' = now + TickStep
    /\ ret' = NoRet
    /\ UNCHANGED <<nextInst, streams, entries, task, viewers, waits, exec, side>>

\* ---------------------------------------------------------------------
\* single statements of the producer and the viewer (SpecInterleaved)
\* ---------------------------------------------------------------------

\* the source yields a frame: alive check (257-259), first statement of the publication
ProducerPublish1(i) ==
    /\ task[i].pc = "running" /\ ~task[i].cancel
    /\ FrameAllowed(i)
    /\ IF ~entries[i].alive
       THEN /\ entries' = [entries EXCEPT ![i] = MarkDead(entries[i])]
            /\ task' = [task EXCEPT ![i] = [Cleaned(i, task[i], 1, 1) EXCEPT !.pc = "closing"]]
       ELSE /\ entries' = [entries EXCEPT ![i] = PublishEntry(entries[i], task[i], PublishOrder[1])]
            /\ task' = [task EXCEPT ![i] = [PublishTask(task[i], PublishOrder[1]) EXCEPT !.pc = "publish"]]
    /\ ret' = NoRet
    /\ UNCHANGED <<now, nextInst, streams, viewers, waits, exec, side>>

\* second statement of the publication, then the idle check (263-272)
ProducerPublish2(i) ==
    /\ task[i].pc = "publish"
    /\ LET e2 == PublishEntry(entries[i], task[i], PublishOrder[2])
           t2 == PublishTask(task[i], PublishOrder[2])
       IN IF Idle(e2)
          THEN /\ entries' = [entries EXCEPT ![i] = MarkDead(e2)]
               /\ task' = [task EXCEPT ![i] = [Cleaned(i, t2, 1, 1) EXCEPT !.pc = "closing"]]
          ELSE /\ entries' = [entries EXCEPT ![i] = e2]
               /\ task' = [task EXCEPT ![i] = [t2 EXCEPT !.pc = "running"]]
    /\ ret' = NoRet
    /\ UNCHANGED <<now, nextInst, streams, viewers, waits, exec, side>>

\* lines 215-221: alive check, touch, seq = entry.frame_seq
ViewerReadSeq(v) ==
    LET w == viewers[v]
        e == entries[w.entry]
    IN /\ w.pc = "poll"
       /\ IF ~LoopRuns(e)
          THEN /\ viewers' = [viewers EXCEPT ![v].pc = "done"]
               /\ UNCHANGED entries
          ELSE /\ entries' = [entries EXCEPT ![w.entry] = Touch(e)]
               /\ viewers' = [viewers EXCEPT ![v].seq = e.frame_seq, ![v].pc = "readseq"]
       /\ ret' = NoRet
       /\ UNCHANGED <<now, nextInst, streams, task, waits, exec, side>>

\* line 222: frame = entry.frame, then lines 224-244
ViewerReadFrame(v) ==
    LET w == viewers[v]
        e == entries[w.entry]
    IN /\ w.pc = "readseq"
       /\ viewers' = [viewers EXCEPT ![v] = ViewerStep(w, w.seq, e.frame)]
       /\ ret' = NoRet
       /\ UNCHANGED <<now, nextInst, streams, entries, task, waits, exec, side>>

\* ---------------------------------------------------------------------
\* specifications
\* ---------------------------------------------------------------------

\* the steps of a producer that never closes its source on a frame (no
\* instance is found idle when no time passes)
ProducerActs ==
    \/ \E i \in Insts : ProducerStart(i)
    \/ \E i \in Insts : ProducerCancelledBeforeStart(i)
    \/ \E i \in Insts : SourceGivesUp(i)
    \/ \E i \in Insts : SourceCatchesCancel(i)
    \/ \E i \in Insts : ProducerExhausted(i)
    \/ \E i \in Insts, msg \in SourceErrors : ProducerError(i, msg)
    \/ \E i \in Insts : ProducerCancelled(i)

\* the steps of a producer that nothing stops while it closes its source
ProducerRuns ==
    \/ ProducerActs
    \/ \E i \in Insts : ProducerClosed(i)

ProducerEnds ==
    \/ ProducerRuns
    \/ \E i \in Insts : ProducerCancelledInCleanup(i)

\* the cameras requested in full: all but one, which keeps the state spaces
\* within reach
ViewedCams == 1..(NumCams - 1)

\* the calls of _ensure_producer: every call for a viewed camera; the other
\* camera is only started, with one params_key
HubCalls ==
    {call \in Cams \X Keys \X BOOLEAN :
        call[1] \in ViewedCams \/ (call[2] = "5-15-0.5" /\ ~call[3])}

\* The hub, its producers and the consumers as far as the hub sees them.
Next ==
    \/ \E call \in HubCalls : EnsureProducer(call[1], call[2], call[3])
    \/ \E c \in ViewedCams : StopStream(c)
    \/ ProducerEnds
    \/ \E i \in Insts : ProducerFrame(i)
    \/ \E i \in Insts : ConsumerTouch(i)
    \/ Tick

Spec == Init /\ [][Next]_vars

\* The event loop runs every task that is ready: a created task takes its
\* first step, a CancelledError is delivered, and the awaits of a source's
\* finally block (closing a socket, waiting for the transcoder to exit) return.
Scheduling ==
    \A i \in Insts :
        /\ WF_vars(ProducerStart(i))
        /\ WF_vars(ProducerCancelledBeforeStart(i))
        /\ WF_vars(ProducerCancelled(i))
        /\ WF_vars(ProducerExhausted(i))
        /\ WF_vars(ProducerClosed(i))
        /\ WF_vars(ProducerCancelledInCleanup(i))

\* every source keeps delivering frames for as long as it is read
Delivering == \A i \in Insts : WF_vars(ProducerFrame(i))

\* The hub with sources that keep delivering frames.
SpecDelivering == Spec /\ Scheduling /\ Delivering

\* a read of a source returns within its timeout (361, 532): with a frame,
\* with bytes that complete no frame, or with the source giving up
ReadReturns(i) ==
    \/ ProducerFrame(i)
    \/ \E b \in TailBytes : SourceReadsOn(i, b)
    \/ SourceGivesUp(i)

\* The hub with sources whose reads return but need not complete a frame.
NextStarving ==
    \/ \E c \in ViewedCams, k \in Keys : EnsureProducer(c, k, FALSE)
    \/ \E c \in ViewedCams : StopStream(c)
    \/ ProducerEnds
    \/ \E i \in Insts : ProducerFrame(i)
    \/ \E i \in Insts, b \in TailBytes : SourceReadsOn(i, b)
    \/ Tick

SpecStarving ==
    /\ Init /\ [][NextStarving]_vars
    /\ Scheduling
    /\ \A i \in Insts : WF_vars(ReadReturns(i))

\* ---------------------------------------------------------------------
\* The hub's calls statement by statement, with SharedStreamHub._lock
\* ---------------------------------------------------------------------
\* One task runs at a time (exec.who); the others run only while it is
\* suspended (exec.who = Nobody).  exec.lock is the holder of the lock and
\* outlives a suspension.  A statement list is the program order of a call.

\* get_or_start, lines 163-173: async with self._lock: ...; return entry
GetOrStartLines == <<"acquire", "get_or_start", "release", "return">>

\* restart, lines 180-200
RestartLines == <<"acquire", "restart", "release", "return">>

StopLines_WaitLocked == <<"acquire", "pop", "mark", "wait", "release", "return">>

\* stop, lines 297-311: the pop under the lock, the rest after its release
StopLines == <<"acquire", "pop", "release", "mark", "wait", "return">>

\* _run_producer, lines 290-293: step 3 of the finally block
CleanupLines == <<"acquire", "unregister", "release", "finish">>

Program(op) ==
    CASE op = "get_or_start" -> GetOrStartLines
      [] op = "restart" -> RestartLines
      [] op = "stop" -> StopLines
      [] op = "cleanup" -> CleanupLines

\* the statement the running task is at
Stmt == IF exec.who = Nobody THEN "none" ELSE Program(exec.op)[exec.line]

\* the running task moves to its next statement
Advance(e) == [e EXCEPT !.line = @ + 1]

\* the running task suspends or ends; the lock stays with its holder
Suspended(e) == [NoExec EXCEPT !.lock = e.lock]

\* the call needs no instance beyond MaxInst
WithinBound(op, c, k) ==
    \/ op = "stop"
    \/ nextInst <= MaxInst
    \/ op = "get_or_start" /\ Reusable(streams[c], k)
    \/ /\ op = "restart"
       /\ streams[c] # NoInst
       /\ entries[streams[c]].alive
       /\ SameParams(entries[streams[c]], k)

\* a request handler calls a hub method
LockCall(op, c, k) ==
    /\ exec.who = Nobody
    /\ WithinBound(op, c, k)
    /\ exec' = [who |-> "caller", lock |-> exec.lock, op |-> op, cam |-> c, key |-> k,
                entry |-> NoInst, line |-> 1]
    /\ ret' = NoRet
    /\ UNCHANGED <<now, nextInst, streams, entries, task, viewers, waits, side>>

\* async with self._lock: __aenter__ (163, 180, 290, 297)
LockAcquire ==
    /\ Stmt = "acquire" /\ exec.lock = Nobody
    /\ exec' = [Advance(exec) EXCEPT !.lock = exec.who]
    /\ ret' = NoRet
    /\ UNCHANGED <<now, nextInst, streams, entries, task, viewers, waits, side>>

\* async with self._lock: __aexit__
LockRelease ==
    /\ Stmt = "release"
    /\ exec' = [Advance(exec) EXCEPT !.lock = Nobody]
    /\ ret' = NoRet
    /\ UNCHANGED <<now, nextInst, streams, entries, task, viewers, waits, side>>

\* lines 164-173; ret takes the value of the return statement
LockGetOrStart ==
    /\ Stmt = "get_or_start"
    /\ get_or_start(exec.cam, exec.key)
    /\ exec' = Advance(exec)
    /\ UNCHANGED <<now, viewers, waits, side>>

\* lines 181-200; ret takes the value of the return statement
LockRestart ==
    /\ Stmt = "restart"
    /\ restart(exec.cam, exec.key)
    /\ exec' = Advance(exec)
    /\ UNCHANGED <<now, viewers, waits, side>>

\* the call hands its result to the request handler
LockReturn ==
    /\ Stmt = "return"
    /\ exec' = Suspended(exec)
    /\ ret' = IF exec.op = "stop"
              THEN [op |-> "stop", cam |-> exec.cam, key |-> "", inst |-> exec.entry]
              ELSE NoRet
    /\ UNCHANGED <<now, nextInst, streams, entries, task, viewers, waits, side>>

\* line 298: entry = self._streams.pop(printer_id, None)
LockPop ==
    /\ Stmt = "pop"
    /\ streams' = [streams EXCEPT ![exec.cam] = NoInst]
    /\ exec' = [Advance(exec) EXCEPT !.entry = streams[exec.cam]]
    /\ ret' = NoRet
    /\ UNCHANGED <<now, nextInst, entries, task, viewers, waits, side>>

\* lines 299-306: return False, or mark the entry and cancel its task
LockMark ==
    /\ Stmt = "mark"
    /\ IF exec.entry = NoInst
       THEN /\ exec' = Suspended(exec)
            /\ ret' = [op |-> "stop", cam |-> exec.cam, key |-> "", inst |-> NoInst]
            /\ UNCHANGED <<entries, task>>
       ELSE /\ entries' = [entries EXCEPT ![exec.entry] = StopMarks(entries[exec.entry])]
            /\ task' = [task EXCEPT ![exec.entry] = Cancel(task[exec.entry])]
            /\ exec' = Advance(exec)
            /\ ret' = NoRet
    /\ UNCHANGED <<now, nextInst, streams, viewers, waits, side>>

\* lines 305-308: suspend in wait_for unless the task is done
LockWait ==
    /\ Stmt = "wait"
    /\ IF task[exec.entry].pc = "done"
       THEN exec' = Advance(exec) /\ UNCHANGED waits
       ELSE exec' = Suspended(exec) /\ waits' = [waits EXCEPT ![exec.entry] = now]
    /\ ret' = NoRet
    /\ UNCHANGED <<now, nextInst, streams, entries, task, viewers, side>>

\* the producer of instance i enters step 3 of its finally block
EntersStep3(i) ==
    [who |-> "producer", lock |-> exec.lock, op |-> "cleanup", cam |-> entries[i].cam,
     key |-> "", entry |-> i, line |-> 1]

\* the loop ends by exhaustion or by a CancelledError (273-274): steps 1 and
\* 2 of the finally block (aclose of a finished source returns at once)
LockProducerEnds(i) ==
    /\ exec.who = Nobody
    /\ \/ task[i].pc \in {"ending", "stopping"} /\ ~task[i].cancel
       \/ task[i].pc \in {"running", "ending"} /\ task[i].cancel
    /\ entries' = [entries EXCEPT ![i] = MarkDead(entries[i])]
    /\ task' = [task EXCEPT ![i] = [Cleaned(i, task[i], 1, 2) EXCEPT !.pc = "finishing",
                                                                     !.cancel = FALSE]]
    /\ exec' = EntersStep3(i)
    /\ ret' = NoRet
    /\ UNCHANGED <<now, nextInst, streams, viewers, waits, side>>

\* the source raises msg (275-277): steps 1 and 2 of the finally block
LockProducerError(i, msg) ==
    /\ exec.who = Nobody
    /\ task[i].pc \in {"running", "ending", "stopping"} /\ ~task[i].cancel
    /\ entries' = [entries EXCEPT ![i] = MarkDead(RecordError(entries[i], msg))]
    /\ task' = [task EXCEPT ![i] = [Cleaned(i, task[i], 1, 2) EXCEPT !.pc = "finishing"]]
    /\ exec' = EntersStep3(i)
    /\ ret' = NoRet
    /\ UNCHANGED <<now, nextInst, streams, viewers, waits, side>>

\* source.aclose() returned (283-287): step 2 is complete
LockProducerClosed(i) ==
    /\ exec.who = Nobody
    /\ task[i].pc = "closing" /\ ~task[i].cancel
    /\ task' = [task EXCEPT ![i] = [Cleaned(i, task[i], 2, 2) EXCEPT !.pc = "finishing"]]
    /\ exec' = EntersStep3(i)
    /\ ret' = NoRet
    /\ UNCHANGED <<now, nextInst, streams, entries, viewers, waits, side>>

\* lines 291-292
LockUnregister ==
    /\ Stmt = "unregister"
    /\ streams' = Unregister(exec.entry)
    /\ task' = [task EXCEPT ![exec.entry] = Cleaned(exec.entry, task[exec.entry], 3, 3)]
    /\ exec' = Advance(exec)
    /\ ret' = NoRet
    /\ UNCHANGED <<now, nextInst, entries, viewers, waits, side>>

\* line 293: the coroutine returns
LockFinish ==
    /\ Stmt = "finish"
    /\ task' = [task EXCEPT ![exec.entry].pc = "done"]
    /\ exec' = Suspended(exec)
    /\ ret' = NoRet
    /\ UNCHANGED <<now, nextInst, streams, entries, viewers, waits, side>>

\* a suspended task is resumed by the event loop, no frame arriving and no
\* time passing
ResumesAtOnce ==
    /\ exec.who = Nobody
    /\ \E i \in Insts :
          \/ ProducerStart(i)
          \/ ProducerCancelledBeforeStart(i)
          \/ SourceGivesUp(i)
          \/ SourceCatchesCancel(i)
          \/ StopReturn(i)

\* a suspended task is resumed by the event loop
Resumes ==
    \/ ResumesAtOnce
    \/ /\ exec.who = Nobody
       /\ \/ \E i \in Insts : ProducerFrame(i) \/ ProducerCancelledInCleanup(i)
          \/ Tick

LockSteps ==
    \/ \E c \in ViewedCams, k \in Keys : LockCall("get_or_start", c, k)
    \/ \E c \in ViewedCams, k \in Keys : LockCall("restart", c, k)
    \/ \E c \in ViewedCams : LockCall("stop", c, "")
    \/ LockAcquire
    \/ LockRelease
    \/ LockGetOrStart
    \/ LockRestart
    \/ LockReturn
    \/ LockPop
    \/ LockMark
    \/ LockWait
    \/ \E i \in Insts : LockProducerEnds(i)
    \/ \E i \in Insts, msg \in SourceErrors : LockProducerError(i, msg)
    \/ LockUnregister
    \/ LockFinish

NextLock ==
    \/ LockSteps
    \/ \E i \in Insts : LockProducerClosed(i)
    \/ Resumes

\* The hub with its lock and its calls statement by statement.
SpecLock == Init /\ [][NextLock]_vars

\* the running task runs on to its next suspension point: nothing preempts
\* it between two statements
RunsOn ==
    /\ WF_vars(LockAcquire)
    /\ WF_vars(LockGetOrStart)
    /\ WF_vars(LockRestart)
    /\ WF_vars(LockPop)
    /\ WF_vars(LockUnregister)
    /\ WF_vars(LockRelease)

NextLockFair ==
    \/ LockSteps
    \/ ResumesAtOnce

\* The hub's calls statement by statement with tasks that run on; no frame
\* arrives and no time passes.
SpecLockFair == Init /\ [][NextLockFair]_vars /\ RunsOn

\* The hub with every stop call followed to its return.
NextStop ==
    \/ \E c \in ViewedCams, k \in Keys, force \in BOOLEAN : EnsureProducer(c, k, force)
    \/ \E c \in ViewedCams : StopStreamAwaited(c)
    \/ \E i \in Insts : StopReturn(i)
    \/ ProducerEnds
    \/ \E i \in Insts : ProducerFrame(i)
    \/ Tick

SpecStop == Init /\ [][NextStop]_vars

\* The hub with its viewers: camera_stream and grid requests, viewers; an
\* instance ends by restart, idleness or the end of its source, not by stop.
NextViewers ==
    \/ \E c \in ViewedCams, k \in Keys, v \in Viewers, fps \in FpsChoices : CameraStream(c, k, v, fps)
    \/ \E c \in ViewedCams, k \in Keys, force \in BOOLEAN : EnsureProducer(c, k, force)
    \/ ProducerRuns
    \/ \E i \in Insts : ProducerFrame(i)
    \/ \E v \in Viewers : ViewerPoll(v)
    \/ \E v \in Viewers : ViewerDisconnect(v)
    \/ Tick

SpecViewers == Init /\ [][NextViewers]_vars

\* Single-camera streams (camera_stream, its viewers, stop) with publication and
\* snapshot split into single statements.
NextInterleaved ==
    \/ \E c \in Cams, k \in Keys, v \in Viewers, fps \in FpsChoices : CameraStream(c, k, v, fps)
    \/ \E c \in Cams : StopStream(c)
    \/ ProducerEnds
    \/ \E i \in Insts : ProducerPublish1(i)
    \/ \E i \in Insts : ProducerPublish2(i)
    \/ \E v \in Viewers : ViewerReadSeq(v)
    \/ \E v \in Viewers : ViewerReadFrame(v)
    \/ \E v \in Viewers : ViewerDisconnect(v)
    \/ Tick

SpecInterleaved == Init /\ [][NextInterleaved]_vars

\* ---------------------------------------------------------------------
\* generate_rtsp_mjpeg_stream: the frame parser (lines 523-573)
\* ---------------------------------------------------------------------

\* byte values: the three marker bytes and one other
Bytes == {0, 216, 217, 255}

\* line 526: jpeg_start = b"\xff\xd8"
jpeg_start == <<255, 216>>

\* line 527: jpeg_end = b"\xff\xd9"
jpeg_end == <<255, 217>>

SeqsUpTo(S, n) == UNION {[1..k -> S] : k \in 0..n}

\* bytearray.find(pat, from) for a two-byte pattern, 1-based; 0 is Python's -1
Find(buf, pat, from) ==
    LET hits == {i \in from..(Len(buf) - 1) : buf[i] = pat[1] /\ buf[i + 1] = pat[2]}
    IN IF hits = {} THEN 0 ELSE CHOOSE i \in hits : \A j \in hits : i <= j

KeepTail_None(buf) == <<>>

\* line 545: del buffer[: max(0, len(buffer) - 1)]
KeepTail(buf) == IF Len(buf) > 1 THEN <<buf[Len(buf)]>> ELSE buf

Trimmed_Not(buf, start_idx) == buf

\* lines 548-549: if start_idx > 0: del buffer[:start_idx]
Trimmed(buf, start_idx) == SubSeq(buf, start_idx, Len(buf))

\* lines 541-573: the inner loop over the buffer; out collects the frames
\* it yields
RECURSIVE Extract(_, _)
Extract(buf, out) ==
    LET start_idx == Find(buf, jpeg_start, 1) IN
    IF start_idx = 0
    THEN [buffer |-> KeepTail(buf), out |-> out]
    ELSE LET trimmed == Trimmed(buf, start_idx)
             end_idx == Find(trimmed, jpeg_end, 3)
         IN IF end_idx = 0
            THEN [buffer |-> trimmed, out |-> out]
            ELSE Extract(SubSeq(trimmed, end_idx + 2, Len(trimmed)),
                         Append(out, SubSeq(trimmed, 1, end_idx + 1)))

\* inputs of the parser: bytes with no start marker, two complete frames,
\* the beginning of a third
Garbage == {g \in SeqsUpTo(Bytes, MaxGarbage) : Find(g, jpeg_start, 1) = 0}

CompleteFrames ==
    {f \in {jpeg_start \o b \o jpeg_end : b \in SeqsUpTo(Bytes, MaxBody)} :
        Find(f, jpeg_end, 3) = Len(f) - 1}

PartialFrames ==
    {f \in {jpeg_start \o b : b \in SeqsUpTo(Bytes, MaxPartial)} : Find(f, jpeg_end, 3) = 0}

\* line 525: buffer = bytearray(), before the first read
\* the fps the sources are started with (camera_grid_stream's default)
SourceFps == 5

NewJpeg(g, f1, f2, p) ==
    [pc |-> "reading", garbage |-> g, first |-> f1, second |-> f2, partial |-> p,
     input |-> g \o f1 \o f2 \o p, rest |-> g \o f1 \o f2 \o p, buffer |-> <<>>, out |-> <<>>, bytewise |-> TRUE,
     fps |-> SourceFps, clock |-> StartClock, times |-> <<>>]

InitJpeg ==
    /\ HubInit
    /\ jp \in {NewJpeg(g, f1, f2, p) : g \in Garbage, f1 \in CompleteFrames,
                                       f2 \in CompleteFrames, p \in PartialFrames}
    /\ SideIdle({"jp"})

\* lines 532-573: one read returns n bytes after waiting dt ms, the buffer
\* is scanned and every frame found is yielded at once (561-568)
JpegRead(n, dt) ==
    /\ jp.pc = "reading"
    /\ n <= Len(jp.rest)
    /\ LET chunk == SubSeq(jp.rest, 1, n)
           r == Extract(jp.buffer \o chunk, jp.out)
           t == jp.clock + dt
       IN jp' = [jp EXCEPT !.rest = SubSeq(jp.rest, n + 1, Len(jp.rest)),
                           !.buffer = r.buffer,
                           !.out = r.out,
                           !.bytewise = @ /\ n = 1,
                           !.clock = t,
                           !.times = @ \o [k \in 1..(Len(r.out) - Len(jp.out)) |-> t]]
    /\ UNCHANGED <<hub, hdr, cham, grid, resp, status>>

NextJpeg == \E n \in 1..MaxChunk : JpegRead(n, ReadWaitShort)

\* The parser on every input of the form garbage, frame, frame, partial frame.
SpecJpeg == InitJpeg /\ [][NextJpeg]_vars

\* the parser before the first read of the byte stream s
AnyJpeg(s) ==
    [NewJpeg(<<>>, <<>>, <<>>, <<>>) EXCEPT !.input = s, !.rest = s]

InitJpegAny ==
    /\ HubInit
    /\ jp \in {AnyJpeg(s) : s \in SeqsUpTo(Bytes, MaxInput)}
    /\ SideIdle({"jp"})

\* The parser on every byte stream of up to MaxInput bytes, read in chunks of
\* any sizes.
SpecJpegAny == InitJpegAny /\ [][NextJpeg]_vars

\* ---------------------------------------------------------------------
\* camera_grid_stream.generate: the record header (lines 762-764)
\* ---------------------------------------------------------------------
\* An unsigned 32-bit value is held as its two 16-bit halves, hi * 65536 + lo:
\* the model checker's integers are 32-bit signed.

HalfSize == 65536

ByteSize == 256

\* values of one half: with both halves 0, 7, 1234 and 2^32 - 1 are covered
HalfValues == {0, 1, 7, 255, 256, 1234, 65535}

U32Values == {[hi |-> h, lo |-> l] : h, l \in HalfValues}

pack_BigEndian(u) ==
    <<u.hi \div ByteSize, u.hi % ByteSize, u.lo \div ByteSize, u.lo % ByteSize>>

\* struct.pack("<I", u): four bytes, least significant first
pack(u) ==
    <<u.lo % ByteSize, u.lo \div ByteSize, u.hi % ByteSize, u.hi \div ByteSize>>

\* line 763: header = struct.pack("<II", pid, len(frame))
Header(pid, length) == pack(pid) \o pack(length)

\* the reader of the stream: a little-endian unsigned 32-bit value at offset off
unpack(b, off) ==
    [hi |-> b[off + 3] + ByteSize * b[off + 4], lo |-> b[off + 1] + ByteSize * b[off + 2]]

InitHeader ==
    /\ HubInit
    /\ hdr \in {[pc |-> "pair", pid |-> p, length |-> l, bytes |-> <<>>,
                 got_pid |-> [hi |-> 0, lo |-> 0], got_length |-> [hi |-> 0, lo |-> 0]] :
                    p, l \in U32Values}
    /\ SideIdle({"hdr"})

HeaderEncode ==
    /\ hdr.pc = "pair"
    /\ hdr' = [hdr EXCEPT !.pc = "encoded", !.bytes = Header(hdr.pid, hdr.length)]
    /\ UNCHANGED <<hub, jp, cham, grid, resp, status>>

HeaderDecode ==
    /\ hdr.pc = "encoded"
    /\ hdr' = [hdr EXCEPT !.pc = "decoded", !.got_pid = unpack(hdr.bytes, 0),
                                            !.got_length = unpack(hdr.bytes, 4)]
    /\ UNCHANGED <<hub, jp, cham, grid, resp, status>>

NextHeader == HeaderEncode \/ HeaderDecode

\* Encoding and decoding of a record header, for every pair of values.
SpecHeader == InitHeader /\ [][NextHeader]_vars

\* ---------------------------------------------------------------------
\* _ensure_producer, camera_grid_stream (lines 622-784)
\* ---------------------------------------------------------------------

\* the printers table as _ensure_producer and get_printer_or_404 read it
PrinterKind(id) ==
    IF id \in Cams THEN "hub" ELSE IF id = ExternalId THEN "external" ELSE "unknown"

ensure_producer_Unchecked(id, k, force) ==
    IF id \in Cams
    THEN IF force THEN restart(id, k) ELSE get_or_start(id, k)
    ELSE /\ nextInst <= MaxInst
         /\ nextInst' = nextInst + 1
         /\ streams' = [streams EXCEPT ![id] = nextInst]
         /\ entries' = [entries EXCEPT ![nextInst] = SharedStream(id, k)]
         /\ task' = [task EXCEPT ![nextInst] = NewTask]
         /\ ret' = [op |-> "get_or_start", cam |-> id, key |-> k, inst |-> nextInst]

\* _ensure_producer, lines 640-678: None for a missing printer and for one with
\* an external camera, the hub's entry otherwise
ensure_producer(id, k, force) ==
    IF PrinterKind(id) # "hub"
    THEN /\ ret' = [op |-> "ensure", cam |-> id, key |-> k, inst |-> NoInst]
         /\ UNCHANGED <<nextInst, streams, entries, task>>
    ELSE IF force THEN restart(id, k) ELSE get_or_start(id, k)

\* line 716: len(printer_ids) > 20
GRID_CAP == 20

OverCap_Never(ids) == FALSE

\* line 716
OverCap(ids) == Len(ids) > GRID_CAP

Range(f) == {f[n] : n \in DOMAIN f}

Repeat(x, n) == [m \in 1..n |-> x]

Remove(seq, x) == SelectSeq(seq, LAMBDA y : y # x)

\* camera_grid_stream, lines 707-722: the id list is checked, then the handler
\* suspends in the first _ensure_producer
GridRequest(ids, k, force) ==
    /\ grid.pc = "none"
    /\ IF ids = <<>> \/ OverCap(ids)
       THEN /\ grid' = [grid EXCEPT !.pc = "done", !.ids = ids]
            /\ resp' = Resp(400, "")
       ELSE /\ grid' = [grid EXCEPT !.pc = "ensuring", !.ids = ids, !.pos = 1,
                                    !.key = k, !.force = force]
            /\ resp' = NoResp
    /\ ret' = NoRet
    /\ UNCHANGED <<now, nextInst, streams, entries, task, viewers, waits, exec, jp, hdr, cham, status>>

\* lines 721-729: _ensure_producer for ids[pos] returns; after the last id the
\* handler answers 404 or hands the generator to the response
GridEnsure ==
    /\ grid.pc = "ensuring"
    /\ ensure_producer(grid.ids[grid.pos], grid.key, grid.force)
    /\ LET pid == grid.ids[grid.pos]
           g1 == IF ret'.inst = NoInst THEN grid
                 ELSE [grid EXCEPT !.entry[pid] = ret'.inst,
                                   !.order = IF pid \in Range(@) THEN @ ELSE Append(@, pid)]
       IN IF grid.pos < Len(grid.ids)
          THEN /\ grid' = [g1 EXCEPT !.pos = @ + 1]
               /\ resp' = NoResp
          ELSE IF g1.order = <<>>
          THEN /\ grid' = [g1 EXCEPT !.pc = "done"]
               /\ resp' = Resp(404, "")
          ELSE /\ grid' = [g1 EXCEPT !.pc = "loop"]
               /\ resp' = Resp(200, "hub")
    /\ UNCHANGED <<now, viewers, waits, exec, jp, hdr, cham, status>>

AfterDead_Stops(snap) == <<>>

\* line 745: continue
AfterDead(snap) == Tail(snap)

Seen_Forgets(g, pid, seq) == g.seen_seqs

\* line 758: seen_seqs[pid] = seq
Seen(g, pid, seq) == [g.seen_seqs EXCEPT ![pid] = seq]

\* lines 741-765: the for loop over snap, the rest of list(entries.items()),
\* up to the yield of a record or to its end; g is the generator's state, ents
\* the _SharedStream objects
RECURSIVE GridRun(_, _, _)
GridRun(snap, g, ents) ==
    IF snap = <<>>
    THEN [grid |-> [g EXCEPT !.snap = <<>>,
                             !.pc = IF g.order = <<>> THEN "done" ELSE "loop"],
          entries |-> ents]
    ELSE LET pid == Head(snap)
             i == g.entry[pid]
         IN IF ~ents[i].alive
            THEN GridRun(AfterDead(snap), [g EXCEPT !.order = Remove(@, pid)], ents)
            ELSE LET touched == [ents EXCEPT ![i].last_accessed = g.now]
                     seq == ents[i].frame_seq
                     frame == ents[i].frame
                 IN IF seq <= g.seen_seqs[pid] \/ frame = NoFrame
                    THEN GridRun(Tail(snap), g, touched)
                    ELSE [grid |-> [g EXCEPT !.seen_seqs = Seen(g, pid, seq),
                                             !.sent[pid] = seq,
                                             !.snap = Tail(snap),
                                             !.pc = "mid",
                                             !.sent_any = TRUE,
                                             !.emits = @ + 1,
                                             !.out = [pid |-> pid, inst |-> i,
                                                      seq |-> seq, frame |-> frame]],
                          entries |-> touched]

Connected_Always(g) == TRUE

\* line 737: not (await request.is_disconnected())
Connected(g) == ~g.gone

\* lines 736-771: a poll cycle starts (the client is connected)
GridCycle ==
    /\ grid.pc = "loop"
    /\ Connected(grid)
    /\ LET r == GridRun(grid.order, [grid EXCEPT !.now = now, !.sent_any = FALSE], entries)
       IN grid' = r.grid /\ entries' = r.entries
    /\ ret' = NoRet
    /\ UNCHANGED <<now, nextInst, streams, task, viewers, waits, exec, jp, hdr, cham, resp, status>>

\* lines 765-771: the generator is resumed after a yield
GridResume ==
    /\ grid.pc = "mid"
    /\ LET r == GridRun(grid.snap, grid, entries)
       IN grid' = r.grid /\ entries' = r.entries
    /\ ret' = NoRet
    /\ UNCHANGED <<now, nextInst, streams, task, viewers, waits, exec, jp, hdr, cham, resp, status>>

\* lines 737-738: the client is gone (or the response abandons the generator)
GridDisconnect ==
    /\ grid.pc \in {"loop", "mid"}
    /\ grid' = [grid EXCEPT !.pc = "done", !.snap = <<>>, !.gone = TRUE]
    /\ ret' = NoRet
    /\ UNCHANGED <<hub_but_ret, jp, hdr, cham, resp, status>>

\* the client disconnects while the generator is suspended
ClientDisconnects ==
    /\ grid.pc \in {"loop", "mid"}
    /\ ~grid.gone
    /\ grid' = [grid EXCEPT !.gone = TRUE]
    /\ ret' = NoRet
    /\ UNCHANGED <<hub_but_ret, jp, hdr, cham, resp, status>>

\* lines 737-738: the next poll cycle finds the client gone
GridSeesDisconnect ==
    /\ grid.pc = "loop"
    /\ ~Connected(grid)
    /\ grid' = [grid EXCEPT !.pc = "done"]
    /\ ret' = NoRet
    /\ UNCHANGED <<hub_but_ret, jp, hdr, cham, resp, status>>

\* grid requests for the cameras of the hub: one camera, all cameras
GridIds == {<<1>>, [n \in 1..NumCams |-> n]}

\* lines 685-687: the params_key of the route's defaults fps=5, quality=15,
\* scale=0.5
GridKey == "5-15-0.5"

NextGrid ==
    \/ \E ids \in GridIds : GridRequest(ids, GridKey, FALSE)
    \/ GridEnsure
    \/ GridCycle
    \/ GridResume
    \/ GridDisconnect
    \/ \E c \in ViewedCams : StopStream(c)
    \/ ProducerEnds
    \/ \E i \in Insts : ProducerFrame(i)
    \/ Tick

\* The hub with one grid stream client.
SpecGrid == Init /\ [][NextGrid]_vars

\* ---------------------------------------------------------------------
\* the hub with both kinds of consumers
\* ---------------------------------------------------------------------

\* lines 791-793: the params_key of camera_stream's defaults fps=10, quality=5,
\* scale=1.0
StreamKey == "10-5-1.0"

NextConsumers ==
    \/ \E c \in ViewedCams, v \in Viewers, fps \in FpsChoices : CameraStream(c, StreamKey, v, fps)
    \/ \E v \in Viewers : ViewerPoll(v)
    \/ \E v \in Viewers : ViewerDisconnect(v)
    \/ \E c \in ViewedCams : GridRequest(<<c>>, GridKey, TRUE)
    \/ GridEnsure
    \/ GridCycle
    \/ GridResume
    \/ GridDisconnect
    \/ \E c \in ViewedCams : StopStream(c)
    \/ ProducerActs
    \/ \E i \in Insts : ProducerFrame(i)

\* The hub with a viewer and a grid stream on the same camera; no time passes.
SpecConsumers == Init /\ [][NextConsumers]_vars

\* ---------------------------------------------------------------------
\* admission of requests (camera_stream 811-868, camera_grid_stream 707-727)
\* ---------------------------------------------------------------------

\* camera_stream: 404 for a missing printer (get_printer_or_404), the external
\* stream for a printer with an external camera (814-855), else
\* _ensure_producer and a viewer (865-868)
CameraStreamRequest(id, v, fps) ==
    /\ viewers[v].pc = "none"
    /\ IF PrinterKind(id) = "unknown"
       THEN /\ resp' = Resp(404, "")
            /\ ret' = NoRet
            /\ UNCHANGED <<nextInst, streams, entries, task, viewers>>
       ELSE IF PrinterKind(id) = "external"
       THEN /\ resp' = Resp(200, "external")
            /\ ret' = NoRet
            /\ UNCHANGED <<nextInst, streams, entries, task, viewers>>
       ELSE /\ ensure_producer(id, StreamKey, FALSE)
            /\ IF ret'.inst = NoInst
               THEN resp' = Resp(503, "") /\ UNCHANGED viewers
               ELSE /\ resp' = Resp(200, "hub")
                    /\ viewers' = [viewers EXCEPT ![v] = NewViewer(ret'.inst, fps)]
    /\ UNCHANGED <<now, waits, exec, jp, hdr, cham, grid, status>>

\* id lists of grid requests: none, one over the cap, one at the cap, lists
\* with an external and an unknown printer
AdmitIds ==
    {<<>>, Repeat(1, GRID_CAP + 1), Repeat(1, GRID_CAP),
     <<ExternalId, 1, UnknownId>>, <<UnknownId, ExternalId>>}

NextAdmit ==
    \/ \E ids \in AdmitIds : GridRequest(ids, GridKey, FALSE)
    \/ GridEnsure
    \/ \E id \in Ids \ {NumCams}, v \in Viewers, fps \in FpsChoices :
          CameraStreamRequest(id, v, fps)
    \/ \E i \in Insts : ProducerStart(i)
    \/ \E i \in Insts : ProducerFrame(i)
    \/ \E i \in Insts : SourceGivesUp(i)
    \/ \E i \in Insts : ProducerExhausted(i)
    \/ \E i \in Insts, msg \in SourceErrors : ProducerError(i, msg)

\* The hub with the request handlers' admission checks; no stop, no restart,
\* no passing of time.
SpecAdmit == Init /\ [][NextAdmit]_vars

\* ---------------------------------------------------------------------
\* the chamber image source (generate_chamber_mjpeg_stream, 322-420)
\* ---------------------------------------------------------------------

\* line 356: frame_interval = 1.0 / fps if fps > 0 else 0.2   (ms)
SourceInterval(fps) == IF fps > 0 THEN 1000 \div fps ELSE 200

\* lines 356-358 after a successful connect
NewCham(fps) ==
    [NoCham EXCEPT !.pc = "reading", !.fps = fps, !.clock = StartClock]

ResetOnFrame_Keeps(n) == n

\* line 373: consecutive_timeouts = 0
ResetOnFrame(n) == 0

\* lines 361-397: read_next_chamber_frame returns a frame after dt ms; the
\* frame is yielded unless it comes within frame_interval of the last yield
ChamberFrame(dt) ==
    /\ cham.pc = "reading"
    /\ Len(cham.log) < MaxReads
    /\ LET t == cham.clock + dt
           c1 == [cham EXCEPT !.clock = t,
                              !.log = Append(@, "frame"),
                              !.consecutive_timeouts = ResetOnFrame(@)]
       IN cham' = IF t - cham.last_frame_time < SourceInterval(cham.fps)
                  THEN c1
                  ELSE [c1 EXCEPT !.last_frame_time = t, !.times = Append(@, t)]
    /\ UNCHANGED <<hub, jp, hdr, grid, resp, status>>

\* lines 366-372: read_next_chamber_frame returns None after its timeout
ChamberTimeout ==
    /\ cham.pc = "reading"
    /\ Len(cham.log) < MaxReads
    /\ cham' = [cham EXCEPT !.clock = @ + READ_TIMEOUT,
                            !.log = Append(@, "timeout"),
                            !.consecutive_timeouts = @ + 1,
                            !.pc = IF cham.consecutive_timeouts + 1 >= STALL_LIMIT
                                   THEN "stalled" ELSE "reading"]
    /\ UNCHANGED <<hub, jp, hdr, grid, resp, status>>

\* lines 362-364: read_next_chamber_frame raises ChamberConnectionClosed
ChamberClosed ==
    /\ cham.pc = "reading"
    /\ Len(cham.log) < MaxReads
    /\ cham' = [cham EXCEPT !.log = Append(@, "closed"), !.pc = "closed"]
    /\ UNCHANGED <<hub, jp, hdr, grid, resp, status>>

\* one of the two sources runs: the transcoder's parser on two frames, or the
\* chamber image loop
InitSources ==
    /\ HubInit
    /\ \/ /\ jp \in {NewJpeg(<<>>, f1, f2, <<>>) : f1 \in CompleteFrames,
                                                  f2 \in CompleteFrames}
          /\ cham = NoCham
       \/ /\ jp = NoJpeg
          /\ cham = NewCham(SourceFps)
    /\ SideIdle({"jp", "cham"})

NextSources ==
    \/ \E n \in 1..MaxChunk, dt \in {ReadWaitShort, ReadWaitLong} : JpegRead(n, dt)
    \/ \E dt \in {ReadWaitShort, ReadWaitLong} : ChamberFrame(dt)
    \/ ChamberTimeout
    \/ ChamberClosed

\* Both frame sources against the clock.
SpecSources == InitSources /\ [][NextSources]_vars

\* ---------------------------------------------------------------------
\* a source that cannot start (338-345, 438-442, 515-521, 585-587)
\* ---------------------------------------------------------------------

\* the text/plain part a source yields instead of frames
ErrorChunk == -1

AfterErrorChunk_StaysPublished(e) == e

\* lines 276-278: the source has returned right after its yield, so the
\* finally block clears the entry in the run that published the chunk
AfterErrorChunk(e) == MarkDead(e)

\* The source finds no ffmpeg, no connection, or an ffmpeg that has exited:
\* it yields ErrorChunk and returns.  _run_producer publishes the chunk as a
\* frame (256-261), asks for the next one, gets StopAsyncIteration and runs
\* its finally block; nothing on this path suspends, so it is one step.
SourceFailsToStart(i) ==
    /\ task[i].pc \in {"pending", "running"} /\ ~task[i].cancel
    /\ task[i].published = 0
    /\ LET e1 == IF entries[i].alive
                 THEN [entries[i] EXCEPT !.frame = ErrorChunk, !.frame_seq = @ + 1]
                 ELSE entries[i]
       IN /\ entries' = [entries EXCEPT ![i] = AfterErrorChunk(e1)]
          /\ streams' = Unregister(i)
          /\ task' = [task EXCEPT ![i] =
                        [Cleaned(i, task[i], 1, 3) EXCEPT
                            !.pc = "done", !.start_failed = TRUE,
                            !.published = IF entries[i].alive THEN 1 ELSE 0]]
    /\ ret' = NoRet
    /\ UNCHANGED <<now, nextInst, viewers, waits, exec, side>>

NextStartFailure ==
    \/ \E c \in ViewedCams, v \in Viewers, fps \in FpsChoices : CameraStream(c, StreamKey, v, fps)
    \/ \E v \in Viewers : ViewerPoll(v)
    \/ \E i \in Insts : SourceFailsToStart(i)
    \/ \E i \in Insts : ProducerStart(i)
    \/ \E i \in Insts : ProducerFrame(i)
    \/ \E i \in Insts : SourceGivesUp(i)
    \/ \E i \in Insts : ProducerExhausted(i)
    \/ \E i \in Insts, msg \in SourceErrors : ProducerError(i, msg)
    \/ \E i \in Insts : ProducerClosed(i)
    \/ Tick

NextGridEnd ==
    \/ NextGrid
    \/ ClientDisconnects
    \/ GridSeesDisconnect

\* The grid stream with the client's disconnection and its detection apart.
SpecGridEnd == Init /\ [][NextGridEnd]_vars

NextGridFailure ==
    \/ NextGrid
    \/ \E i \in Insts : SourceFailsToStart(i)

\* The grid stream over sources that may fail to start.
SpecGridFailure == Init /\ [][NextGridFailure]_vars

\* Single-camera streams over sources that may fail to start; no stop, no
\* restart, no client disconnect.
SpecStartFailure == Init /\ [][NextStartFailure]_vars

\* ---------------------------------------------------------------------
\* the status dicts (_stream_start_times, _last_frames, _last_frame_times)
\* ---------------------------------------------------------------------

\* lines 409-412, 600-603: the finally block of a source pops the three keys
\* of its printer id
Teardown(i) == [status EXCEPT ![entries[i].cam] = NoStat]

\* line 675, then the hub call (676-678)
StatusEnsure(c, k, force) ==
    /\ Ensures(c, k, force)
    /\ status' = [status EXCEPT ![c].start = now]
    /\ UNCHANGED side_but_status

\* lines 376-378, 561-563: the source records the frame before it yields it;
\* a producer that then leaves its loop closes the source at that yield,
\* whose finally block runs at once
StatusFrame(i) ==
    /\ FrameArrives(i)
    /\ status' = IF task'[i].pc = "running"
                 THEN [status EXCEPT ![entries[i].cam].frame = i,
                                     ![entries[i].cam].frame_time = now]
                 ELSE Teardown(i)
    /\ UNCHANGED side_but_status

\* the source gives up inside its try block (timeouts, connection closed,
\* output ended) and runs its finally block
StatusSourceGivesUp(i) ==
    /\ GivesUp(i)
    /\ status' = Teardown(i)
    /\ UNCHANGED side_but_status

\* the source catches the CancelledError and runs its finally block
StatusSourceCatchesCancel(i) ==
    /\ CatchesCancel(i)
    /\ status' = Teardown(i)
    /\ UNCHANGED side_but_status

\* the CancelledError passes through a source suspended in its try block,
\* whose finally block runs; a source that has given up has run it already
StatusProducerCancelled(i) ==
    /\ Cancelled(i)
    /\ status' = IF task[i].pc = "running" THEN Teardown(i) ELSE status
    /\ UNCHANGED side_but_status

\* camera_status, lines 1074-1089: stream_uptime and has_frames
Reports(c) == [uptime |-> status[c].start # -1, has_frames |-> status[c].frame # NoInst]

NextStatus ==
    \/ \E c \in ViewedCams, k \in Keys, force \in BOOLEAN : StatusEnsure(c, k, force)
    \/ \E i \in Insts : StatusFrame(i)
    \/ \E i \in Insts : StatusSourceGivesUp(i)
    \/ \E i \in Insts : StatusSourceCatchesCancel(i)
    \/ \E i \in Insts : StatusProducerCancelled(i)
    \/ \E i \in Insts : ProducerStart(i)
    \/ \E i \in Insts : ProducerCancelledBeforeStart(i)
    \/ \E i \in Insts : ProducerExhausted(i)
    \/ \E i \in Insts, msg \in SourceErrors : ProducerError(i, msg)
    \/ \E i \in Insts : ProducerClosed(i)
    \/ Tick

\* The hub with the status dicts its sources and _ensure_producer write.
SpecStatus == Init /\ [][NextStatus]_vars

\* ---------------------------------------------------------------------
\* properties
\* ---------------------------------------------------------------------

\* the live instances constructed for camera c
LiveInsts(c) == {i \in Created : entries[i].cam = c /\ entries[i].alive}

\* the tasks a step cancels
NewlyCancelled == {i \in Insts : task'[i].cancel /\ ~task[i].cancel}

\* C1: for each camera id at most one instance ever constructed for it is
\* alive, and a live instance is the one the registry maps the id to.
C1_OneLivePerCamera ==
    \A c \in Cams :
        /\ Cardinality(LiveInsts(c)) <= 1
        /\ \A i \in LiveInsts(c) : streams[c] = i

\* a live instance next to a dead one of the same camera that is still winding up
C1_Witness ==
    \E c \in Cams : \E i, j \in Created :
        /\ i # j /\ entries[i].cam = c /\ entries[j].cam = c
        /\ entries[i].alive /\ streams[c] = i
        /\ ~entries[j].alive /\ task[j].pc \in {"running", "closing"}

\* C2: a get_or_start call for a camera whose registered instance is alive
\* returns that instance and creates no task; a call that finds no live
\* instance creates exactly one instance with one pending task.
C2_IdempotentAttach ==
    [][ret'.op = "get_or_start" =>
         IF is_active(ret'.cam)
         THEN /\ ret'.inst = streams[ret'.cam]
              /\ nextInst' = nextInst /\ task' = task /\ streams' = streams
         ELSE /\ nextInst' = nextInst + 1 /\ ret'.inst = nextInst
              /\ task'[nextInst].pc = "pending"
              /\ \A i \in Created : task'[i] = task[i]]_vars

\* a repeated call returned the one instance constructed so far, which has
\* published frames already
C2_Witness ==
    /\ ret.op = "get_or_start" /\ nextInst = 2
    /\ ret.inst = 1 /\ entries[1].alive /\ entries[1].frame_seq > 0

\* C3: get_or_start with a params_key other than that of the live entry
\* returns the existing instance, starts no producer, cancels no task and
\* leaves its params_key alone; no instance's params_key ever changes.
C3_ParamsMismatchReuses ==
    [][/\ (ret'.op = "get_or_start" /\ is_active(ret'.cam)
           /\ entries[streams[ret'.cam]].params_key # ret'.key)
          => /\ ret'.inst = streams[ret'.cam]
             /\ nextInst' = nextInst
             /\ task' = task
             /\ entries'[ret'.inst].params_key = entries[ret'.inst].params_key
       /\ \A i \in Created : entries'[i].params_key = entries[i].params_key]_vars

C3_Witness ==
    /\ ret.op = "get_or_start" /\ ret.inst # NoInst
    /\ entries[ret.inst].alive
    /\ entries[ret.inst].params_key # ret.key

\* C4: restart with the params_key of the live entry cancels nothing, creates
\* nothing, returns the live instance and changes nothing but last_accessed.
C4_RestartSameParamsNoop ==
    [][(ret'.op = "restart" /\ is_active(ret'.cam)
        /\ entries[streams[ret'.cam]].params_key = ret'.key)
       => LET old == streams[ret'.cam] IN
          /\ ret'.inst = old
          /\ NewlyCancelled = {}
          /\ nextInst' = nextInst /\ streams' = streams /\ task' = task
          /\ entries' = [entries EXCEPT ![old].last_accessed = now]]_vars

\* restart returned an instance that has published frames: not a fresh one
C4_Witness ==
    /\ ret.op = "restart" /\ ret.inst # NoInst
    /\ entries[ret.inst].alive /\ entries[ret.inst].frame_seq > 0
    /\ entries[ret.inst].params_key = ret.key

\* C5: restart with another params_key than the live entry's cancels exactly
\* the prior producer, leaves the prior instance dead and the registry with
\* exactly one new live instance of the new params_key and sequence 0.
C5_RestartDifferentParams ==
    [][(ret'.op = "restart" /\ is_active(ret'.cam)
        /\ entries[streams[ret'.cam]].params_key # ret'.key)
       => LET old == streams[ret'.cam]
              new == ret'.inst
          IN /\ NewlyCancelled = {old}
             /\ ~entries'[old].alive
             /\ new \notin Created /\ nextInst' = nextInst + 1 /\ new = nextInst
             /\ streams'[ret'.cam] = new
             /\ entries'[new].alive
             /\ entries'[new].params_key = ret'.key
             /\ entries'[new].frame_seq = 0
             /\ {i \in Insts : entries'[i].cam = ret'.cam /\ entries'[i].alive} = {new}]_vars

C5_Witness ==
    /\ ret.op = "restart" /\ ret.inst # NoInst
    /\ entries[ret.inst].alive /\ streams[ret.cam] = ret.inst
    /\ \E j \in Created :
          /\ j # ret.inst /\ entries[j].cam = ret.cam
          /\ ~entries[j].alive /\ task[j].cancel
          /\ entries[j].params_key # ret.key

\* C6: an instance whose alive flag is false never has it true again.
C6_AliveTerminal ==
    [][\A i \in Created : ~entries[i].alive => ~entries'[i].alive]_vars

\* a finished dead instance and the live instance a later request made
C6_Witness ==
    \E i, j \in Created :
        /\ i # j /\ entries[i].cam = entries[j].cam
        /\ ~entries[i].alive /\ task[i].pc = "done"
        /\ entries[j].alive /\ entries[j].frame_seq > 0

\* C7: the instance a get_or_start call returns is alive at the return, and
\* when the registry held no live instance it is a newly constructed one with
\* sequence 0 and no frame.
C7_NeverReturnsDead ==
    [][ret'.op = "get_or_start" =>
         /\ entries'[ret'.inst].alive
         /\ ~is_active(ret'.cam) =>
              /\ ret'.inst \notin Created
              /\ ret'.inst # streams[ret'.cam]
              /\ entries'[ret'.inst].frame_seq = 0
              /\ entries'[ret'.inst].frame = NoFrame]_vars

\* get_or_start replaced an instance whose producer stopped for idleness and
\* is still in its cleanup (no stop or restart has cancelled it, so the
\* registry held it until this call)
C7_Witness ==
    /\ ret.op = "get_or_start" /\ ret.inst # NoInst
    /\ task[ret.inst].pc = "pending" /\ streams[ret.cam] = ret.inst
    /\ \E j \in Created :
          /\ j # ret.inst /\ entries[j].cam = ret.cam
          /\ ~entries[j].alive /\ entries[j].frame_seq > 0
          /\ task[j].pc = "closing" /\ ~task[j].cancel

\* C8: frame_seq never decreases, grows by one with every frame written into
\* the instance and equals the number of frames written.
C8_SequenceCountsFrames ==
    [][\A i \in Created :
          /\ entries'[i].frame_seq >= entries[i].frame_seq
          /\ entries'[i].frame_seq - entries[i].frame_seq
               = task'[i].published - task[i].published
          /\ entries'[i].frame_seq = task'[i].published]_vars

C8_Witness ==
    \E i \in Created : entries[i].frame_seq = MaxFrames /\ task[i].published = MaxFrames

\* C9: whatever the interleaving of the producer's and the viewer's statements,
\* a frame a viewer reads after reading sequence s is frame number s or a later
\* one; it reads no frame at all for an advanced sequence only when the
\* instance is dead.
C9_NoTornRead ==
    \A v \in Viewers :
        LET w == viewers[v] IN
        w.pc \in {"poll", "done"} =>
            /\ w.frame # NoFrame => w.frame >= w.seq
            /\ (w.frame = NoFrame /\ w.seq > w.seen_seq) => ~entries[w.entry].alive
            /\ w.yields > 0 => w.out_frame >= w.out_seq

\* a viewer read sequence s and yielded a frame published after it
C9_Witness ==
    \E v \in Viewers :
        /\ viewers[v].yields > 0
        /\ viewers[v].out_frame > viewers[v].out_seq

\* C10: the sequence values a viewer reads never decrease, it stays bound to
\* its instance, and every chunk it yields has a higher sequence number than
\* the one before.
C10_ViewerMonotonic ==
    [][\A v \in Viewers :
          viewers[v].pc # "none" =>
              /\ viewers'[v].entry = viewers[v].entry
              /\ viewers'[v].seq >= viewers[v].seq
              /\ viewers'[v].yields # viewers[v].yields =>
                   /\ viewers'[v].yields = viewers[v].yields + 1
                   /\ viewers'[v].out_seq > viewers[v].out_seq]_vars

\* a viewer yielded two frames
C10_Witness ==
    \E v \in Viewers : viewers[v].yields = 2 /\ viewers[v].out_seq = 2

\* C11: a step of a producer's finally block changes the registry only by
\* deleting the entry that references the producer's own instance; an entry
\* that references a replacement stays in place.
C11_ReplacementRace ==
    [][\A i \in Created :
          task'[i].steps # task[i].steps =>
              \A c \in Cams :
                  \/ streams'[c] = streams[c]
                  \/ streams[c] = i /\ streams'[c] = NoInst]_vars

\* a producer whose identity check found the replacement registered, which is
\* still registered and alive
C11_Witness ==
    \E i, j \in Created :
        /\ i # j /\ entries[i].cam = entries[j].cam
        /\ task[j].pc = "done" /\ task[j].steps = CleanupOrder /\ task[j].found = "other"
        /\ streams[entries[i].cam] = i /\ entries[i].alive

\* the producer of instance i has stopped and the registry does not hold i
Retired(i) ==
    /\ ~entries[i].alive
    /\ task[i].pc = "done"
    /\ streams[entries[i].cam] # i

\* C12: with sources that keep delivering frames, a live instance that has not
\* been touched for more than IDLE_TIMEOUT is eventually touched again or
\* dead, with its producer stopped and its registry entry removed.
C12_IdleRetirement ==
    \A i \in Insts :
        (i \in Created /\ entries[i].alive
                        /\ now - entries[i].last_accessed > IDLE_TIMEOUT)
            ~> (i \in Created
                  /\ (now - entries[i].last_accessed <= IDLE_TIMEOUT \/ Retired(i)))

\* a producer that published a frame beyond those of a watched instance (so
\* it found the instance idle) and finished its cleanup, removing its own
\* registry entry
C12_Witness ==
    \E i \in Created :
        /\ Retired(i) /\ now - entries[i].last_accessed > IDLE_TIMEOUT
        /\ task[i].published > MaxFrames /\ entries[i].frame_seq = task[i].published
        /\ task[i].steps = CleanupOrder /\ task[i].found = "self"
        /\ streams[entries[i].cam] = NoInst

\* C13: a producer stops for idleness only when every viewer loop running
\* against its instance made its last iteration more than IDLE_TIMEOUT ago: a
\* viewer that keeps iterating keeps the producer alive, whether it yields the
\* frames or its rate limit drops them.
C13_KeepAlive ==
    [][\A i \in Created :
          (entries[i].alive /\ ~entries'[i].alive
             /\ task'[i].published = task[i].published + 1)
          => \A v \in Viewers :
                 (viewers[v].pc = "poll" /\ viewers[v].entry = i)
                 => now - viewers[v].last_iter > IDLE_TIMEOUT]_vars

\* a viewer whose rate limit dropped the frame that the producer published
\* after the viewer's last yield, with the producer still running
C13_Witness ==
    \E v \in Viewers :
        LET w == viewers[v] IN
        /\ w.pc = "poll" /\ w.yields > 0 /\ w.seen_seq > w.out_seq
        /\ w.last_iter = now /\ now = MaxTime
        /\ entries[w.entry].alive /\ task[w.entry].pc = "running"
        /\ entries[w.entry].frame_seq = w.seen_seq

\* C14: a live instance whose producer is reading its source and that has not
\* been touched for more than IDLE_TIMEOUT is eventually touched again or
\* retired, whether or not the source delivers a frame.
C14_IdleWithoutFrames ==
    \A i \in Insts :
        (i \in Created /\ entries[i].alive /\ task[i].pc = "running"
                        /\ now - entries[i].last_accessed > IDLE_TIMEOUT)
            ~> (i \in Created
                  /\ (now - entries[i].last_accessed <= IDLE_TIMEOUT \/ Retired(i)))

\* task.cancel() has been called on t or t finished
CancelledOrDone(t) == t.cancel \/ t.pc \in {"stopping", "done"}

\* C15: a stop call that returns False found no registry entry and changed
\* nothing; a stop call that returns True had popped the entry of the instance
\* it stopped, and at its return the registry does not map the id to that
\* instance, the instance is dead and has no frame, and its producer task
\* has been cancelled or is finished.
C15_StopSemantics ==
    [][ret'.op = "stop" =>
         IF ~StopResult(ret')
         THEN /\ streams[ret'.cam] = NoInst
              /\ UNCHANGED <<now, nextInst, streams, entries, task, viewers, waits, exec, side>>
         ELSE LET i == ret'.inst IN
              /\ waits[i] # NoWait \/ streams[ret'.cam] = i
              /\ entries[i].cam = ret'.cam
              /\ streams'[ret'.cam] # i
              /\ ~entries'[i].alive /\ entries'[i].frame = NoFrame
              /\ CancelledOrDone(task'[i])]_vars

\* stop returned True after its bounded wait while the cancelled producer of
\* an instance that had published frames has not finished
C15_Witness ==
    /\ ret.op = "stop" /\ StopResult(ret)
    /\ task[ret.inst].pc # "done" /\ task[ret.inst].published > 0
    /\ now - entries[ret.inst].last_accessed >= STOP_TIMEOUT

\* C16: a producer task that ended after its cleanup began has performed the
\* three cleanup steps, in the order 1, 2, 3 (a task cancelled before it
\* started never ran and has no cleanup).
C16_FullCleanup ==
    \A i \in Created :
        (task[i].pc = "done" /\ task[i].steps # <<>>) => task[i].steps = CleanupOrder

\* the coroutine reached the end of its finally block (292-293): the task
\* finished without an exception
Returned(t) == t.pc = "done" /\ t.steps = CleanupOrder

C18_SourceFailureRecorded ==
    [][\A i \in Created :
          (task[i].pc = "ending" /\ ~task[i].cancel /\ task'[i].pc = "done")
              => entries'[i].error # NoError]_vars

\* instance i's producer takes a step of its termination or cleanup
Terminating(i) ==
    /\ task'[i].pc # task[i].pc \/ task'[i].steps # task[i].steps
    /\ task'[i].pc \in {"ending", "stopping", "closing", "done"}

\* C19: a step of the termination or cleanup of one camera's producer leaves,
\* for every other camera, the registry entry and the alive flag, sequence
\* and frame of its instances unchanged, and the tasks of those instances too.
C19_FailureIsolation ==
    [][\A i \in Created :
          Terminating(i) =>
              /\ \A c \in Cams \ {entries[i].cam} : streams'[c] = streams[c]
              /\ \A j \in Created :
                    entries[j].cam # entries[i].cam =>
                        /\ entries'[j] = entries[j]
                        /\ task'[j] = task[j]]_vars

\* one camera's producer ended by an exception of its source while another
\* camera's instance is registered, alive and holds a published frame
C19_Witness ==
    \E i, j \in Created :
        /\ entries[i].cam # entries[j].cam
        /\ task[i].pc = "done" /\ entries[i].error \in SourceErrors
        /\ streams[entries[j].cam] = j /\ entries[j].alive
        /\ entries[j].frame_seq > 0 /\ entries[j].frame # NoFrame
        /\ task[j].pc = "running"

\* C20: the registry changes only in a step of the task that holds the hub
\* lock; and whenever every task is suspended (in opening, reading or
\* releasing a source, or in waiting for a producer task) the lock is free.
C20_LockDiscipline ==
    /\ [][streams' # streams => (exec.who # Nobody /\ exec.lock = exec.who)]_vars
    /\ [](exec.who = Nobody => exec.lock = Nobody)

\* a stop call popped the entry under the lock and is suspended in wait_for
\* with the lock free, and the cancelled producer it waits for holds the
\* lock in step 3 of its cleanup
C20_Witness ==
    /\ exec.who = "producer" /\ exec.lock = "producer" /\ Stmt = "unregister"
    /\ waits[exec.entry] # NoWait
    /\ streams[exec.cam] # exec.entry

\* C22: on an input of the form garbage, frame, frame, partial frame, read
\* in chunks of any sizes, the parser emits nothing but the two frames, in
\* order and byte for byte, and when the input is consumed it has emitted
\* both and its buffer holds exactly the partial frame.
C22_JpegExtraction ==
    jp.pc = "reading" =>
        /\ jp.out \in {<<>>, <<jp.first>>, <<jp.first, jp.second>>}
        /\ jp.rest = <<>> => (jp.out = <<jp.first, jp.second>> /\ jp.buffer = jp.partial)

\* an input with garbage ending in 0xFF was read one byte at a time to its end
C22_Witness ==
    /\ jp.pc = "reading" /\ jp.rest = <<>> /\ jp.bytewise
    /\ Len(jp.garbage) = MaxGarbage /\ jp.garbage[MaxGarbage] = 255
    /\ Len(jp.partial) > 2
    /\ jp.out = <<jp.first, jp.second>> /\ jp.buffer = jp.partial

\* C23: the header of an identity and a payload length is 8 bytes, and
\* decoding it as two little-endian unsigned 32-bit integers gives back the
\* identity and the length.
C23_HeaderRoundTrip ==
    /\ hdr.pc \in {"encoded", "decoded"} =>
          (Len(hdr.bytes) = 8 /\ \A n \in 1..8 : hdr.bytes[n] \in 0..(ByteSize - 1))
    /\ hdr.pc = "decoded" => (hdr.got_pid = hdr.pid /\ hdr.got_length = hdr.length)

\* the pair (2^32 - 1, 0) was encoded and decoded
C23_Witness ==
    /\ hdr.pc = "decoded"
    /\ hdr.pid = [hi |-> HalfSize - 1, lo |-> HalfSize - 1]
    /\ hdr.length = [hi |-> 0, lo |-> 0]
    /\ hdr.got_pid = hdr.pid /\ hdr.got_length = hdr.length

\* the cameras of snap the generator would emit a record for: alive, sequence
\* beyond the last one sent, frame present
Due(snap) ==
    {n \in DOMAIN snap :
        LET e == entries[grid.entry[snap[n]]]
        IN e.alive /\ e.frame_seq > grid.seen_seqs[snap[n]] /\ e.frame # NoFrame}

\* what a run of the generator has left to visit
ToVisit == IF grid.pc = "loop" THEN grid.order ELSE grid.snap

\* C24: a run of the grid generator emits a record only for a tracked camera
\* whose instance is alive, with that instance's current sequence and frame;
\* a camera never comes back into the rotation, and a camera found dead is
\* removed from it; and the first camera left in the cycle that is alive with
\* an advanced sequence is emitted in the run, whatever dead or unadvanced
\* cameras precede it.
C24_GridSkipsDead ==
    [][/\ grid.pc \in {"loop", "mid"} => Range(grid'.order) \subseteq Range(grid.order)
       /\ grid'.emits # grid.emits =>
             LET o == grid'.out IN
             /\ grid'.emits = grid.emits + 1
             /\ o.pid \in Range(grid.order) /\ o.inst = grid.entry[o.pid]
             /\ entries[o.inst].alive
             /\ o.seq = entries[o.inst].frame_seq /\ o.frame = entries[o.inst].frame
             /\ o.frame # NoFrame
       /\ (GridCycle \/ GridResume) =>
             IF Due(ToVisit) = {}
             THEN /\ grid'.emits = grid.emits
                  /\ \A pid \in Range(grid'.order) : entries[grid.entry[pid]].alive
                         \/ pid \notin Range(ToVisit)
             ELSE LET n == CHOOSE n \in Due(ToVisit) : \A m \in Due(ToVisit) : n <= m IN
                  /\ grid'.emits = grid.emits + 1
                  /\ grid'.out.pid = ToVisit[n]
                  /\ \A m \in 1..(n - 1) :
                         ToVisit[m] \in Range(grid'.order) => entries[grid.entry[ToVisit[m]]].alive
      ]_vars

\* of two tracked cameras the first one, which had been emitted, died and was
\* removed, and the second one was emitted in the cycle that found it dead
C24_Witness ==
    /\ grid.pc = "mid" /\ Len(grid.ids) > 1
    /\ grid.order = <<grid.ids[2]>>
    /\ grid.seen_seqs[grid.ids[1]] > 0
    /\ ~entries[grid.entry[grid.ids[1]]].alive
    /\ grid.out.pid = grid.ids[2] /\ grid.snap = <<>>
    /\ grid.seen_seqs[grid.ids[2]] > 1

\* C25: when the grid generator detects that the producer of a tracked camera
\* is dead (it takes the camera out of its rotation), the camera's last-seen
\* sequence is 0 afterwards.
C25_ResetsSeenOnDeath ==
    [][\A pid \in Range(grid.order) :
          (grid.pc \in {"loop", "mid"} /\ pid \notin Range(grid'.order))
              => grid'.seen_seqs[pid] = 0]_vars

\* the producer task of instance i took the step
ProducerStepped(i) ==
    \/ task'[i].pc # task[i].pc
    \/ task'[i].published # task[i].published
    \/ task'[i].steps # task[i].steps
    \/ task'[i].tail # task[i].tail

\* stop or restart, which had instance i registered, marked it: alive False,
\* frame unchanged or None
HubMarked(i) ==
    /\ streams[entries[i].cam] = i /\ streams'[entries[i].cam] # i
    /\ ~entries'[i].alive
    /\ entries'[i].frame \in {entries[i].frame, NoFrame}

\* a step of a viewer generator or of the grid generator
ConsumerStepped ==
    \/ \E v \in Viewers : ViewerPoll(v) \/ ViewerDisconnect(v)
    \/ GridCycle \/ GridResume \/ GridDisconnect

\* a consumer's step changes nothing of the hub but last_accessed fields
OnlyTouches ==
    /\ UNCHANGED <<nextInst, streams, task, waits>>
    /\ \A i \in Insts :
          [entries'[i] EXCEPT !.last_accessed = 0] = [entries[i] EXCEPT !.last_accessed = 0]

\* C21 as stated: frame, sequence, alive and error of an instance change only
\* in steps of its own producer task, and a step of a viewer or of the grid
\* generator changes nothing of the hub but last_accessed.
C21_WriteOwnership ==
    [][/\ \A i \in Created :
             entries'[i].frame # entries[i].frame \/ entries'[i].frame_seq # entries[i].frame_seq
               \/ entries'[i].alive # entries[i].alive \/ entries'[i].error # entries[i].error
             => ProducerStepped(i)
       /\ ConsumerStepped => OnlyTouches]_vars

\* C21 amended: sequence and error of an instance change only in steps of its
\* own producer task; alive and frame change only in such steps or when stop
\* or restart, having the instance registered, sets alive False (stop also
\* frame None); a step of a viewer or of the grid generator changes nothing of
\* the hub but last_accessed.
C21_WriteOwnershipAmended ==
    [][/\ \A i \in Created :
             /\ entries'[i].frame_seq # entries[i].frame_seq \/ entries'[i].error # entries[i].error
                  => ProducerStepped(i)
             /\ entries'[i].frame # entries[i].frame \/ entries'[i].alive # entries[i].alive
                  => ProducerStepped(i) \/ HubMarked(i)
       /\ ConsumerStepped => OnlyTouches]_vars

\* stop marked a live instance that held a frame and that a viewer polls, and
\* its producer has not run since
C21_Witness ==
    \E i \in Created, v \in Viewers :
        /\ ~entries[i].alive /\ entries[i].frame = NoFrame /\ entries[i].frame_seq > 0
        /\ task[i].pc = "running" /\ task[i].cancel /\ task[i].steps = <<>>
        /\ streams[entries[i].cam] = NoInst
        /\ viewers[v].pc = "poll" /\ viewers[v].entry = i /\ viewers[v].yields > 0

\* C26: a grid request with more than GRID_CAP ids, a grid request with no
\* ids, and a single-camera request for an unknown printer are each answered
\* with an error (400, 400, 404) while no _SharedStream and no producer task
\* is created and the registry stays as it was; a request of exactly
\* GRID_CAP ids is admitted.
C26_RejectedBeforeCreation ==
    [][ /\ (grid.pc = "none" /\ grid'.pc # "none")
            => /\ ((grid'.ids = <<>> \/ Len(grid'.ids) > GRID_CAP)
                   => (/\ resp'.status = 400
                       /\ grid'.pc = "done"
                       /\ UNCHANGED <<nextInst, streams, entries, task, waits>>))
               /\ ((grid'.ids # <<>> /\ Len(grid'.ids) <= GRID_CAP)
                   => grid'.pc = "ensuring")
        /\ (\E v \in Viewers, fps \in FpsChoices : CameraStreamRequest(UnknownId, v, fps))
            => /\ resp'.status = 404
               /\ UNCHANGED <<nextInst, streams, entries, task, waits, viewers>>
      ]_vars

\* a request over the cap was rejected while the hub holds a live producer
\* that has published, next to a rejected single-camera request... the hub
\* is exactly as the producers left it
C26_Witness ==
    /\ grid.pc = "done"
    /\ Len(grid.ids) = GRID_CAP + 1
    /\ resp.status = 400
    /\ \E c \in Cams : /\ streams[c] # NoInst
                       /\ entries[streams[c]].alive
                       /\ entries[streams[c]].frame_seq > 0

\* C27: the hub never holds a producer for an unknown printer or for one with
\* an external camera: _ensure_producer returns no entry for them and creates
\* nothing, the grid leaves them out of its rotation, and a single-camera
\* stream of an external camera is served without a hub entry.
C27_NoProducerForUnknownOrExternal ==
    /\ [](/\ \A id \in Ids \ Cams : streams[id] = NoInst
          /\ \A i \in 1..(nextInst - 1) : entries[i].cam \in Cams
          /\ Range(grid.order) \subseteq Cams)
    /\ [][/\ (GridEnsure /\ PrinterKind(grid.ids[grid.pos]) # "hub")
             => /\ ret'.inst = NoInst
                /\ UNCHANGED <<nextInst, streams, entries, task, waits>>
          /\ (\E v \in Viewers, fps \in FpsChoices : CameraStreamRequest(ExternalId, v, fps))
             => /\ resp' = Resp(200, "external")
                /\ UNCHANGED <<nextInst, streams, entries, task, waits, viewers>>
         ]_vars

\* the grid runs over the one hub camera of a request that also named an
\* external and an unknown printer
C27_Witness ==
    /\ grid.pc = "loop"
    /\ ExternalId \in Range(grid.ids)
    /\ UnknownId \in Range(grid.ids)
    /\ grid.order = <<1>>
    /\ streams[1] # NoInst

\* the number of consecutive timeouts at the end of a log of read results
RECURSIVE TrailingTimeouts(_)
TrailingTimeouts(log) ==
    IF log = <<>> \/ log[Len(log)] # "timeout" THEN 0
    ELSE 1 + TrailingTimeouts(SubSeq(log, 1, Len(log) - 1))

\* STALL_LIMIT timeouts in a row somewhere in a log of read results
HasStall(log) ==
    \E k \in 1..Len(log) :
        /\ k + STALL_LIMIT - 1 <= Len(log)
        /\ \A j \in k..(k + STALL_LIMIT - 1) : log[j] = "timeout"

\* C28: the chamber image source ends by stall exactly when STALL_LIMIT read
\* timeouts came in a row with no frame between them; every frame received
\* resets the counter to 0, so timeouts that are not consecutive never end
\* it; a closed connection ends it at once, whatever the counter.
C28_StallOnConsecutiveTimeouts ==
    /\ [](/\ (cham.pc = "stalled") <=> HasStall(cham.log)
          /\ (cham.pc = "closed") <=> (cham.log # <<>> /\ cham.log[Len(cham.log)] = "closed")
          /\ cham.pc = "reading" => cham.consecutive_timeouts = TrailingTimeouts(cham.log)
          /\ cham.pc = "stalled" => TrailingTimeouts(cham.log) = STALL_LIMIT)
    /\ [][(cham'.log # cham.log /\ cham'.log[Len(cham'.log)] = "frame")
             => cham'.consecutive_timeouts = 0 /\ cham'.pc = "reading"]_vars

\* the source is still reading after more than STALL_LIMIT timeouts that
\* frames separated
C28_Witness ==
    /\ cham.pc = "reading"
    /\ Cardinality({k \in 1..Len(cham.log) : cham.log[k] = "timeout"}) > STALL_LIMIT

\* yields of a source started with fps are at least its frame interval apart
Spaced(times, fps) ==
    \A k \in 2..Len(times) : times[k] - times[k - 1] >= SourceInterval(fps)

\* C29: both sources limit the rate themselves: neither the transcoder's
\* parser nor the chamber image loop yields two frames less than 1/fps apart.
C29_RateLimitedAtSource ==
    /\ Spaced(jp.times, jp.fps)
    /\ Spaced(cham.times, cham.fps)

\* C30: when the source of a single camera cannot start, the client of the
\* single-camera stream receives one part, the source's plain-text error, and
\* not an empty stream.
C30_StartFailureReachesClient ==
    \A v \in Viewers :
        (/\ viewers[v].pc = "done"
         /\ task[viewers[v].entry].start_failed)
        => /\ viewers[v].yields = 1
           /\ viewers[v].out_frame = ErrorChunk

\* C31: the grid stream emits no record for a camera whose source has failed:
\* every record it emits is a frame of an instance that is alive, recorded no
\* error and did not fail to start, and no record ever carries the source's
\* error text.
C31_GridOmitsFailedCamera ==
    /\ [](grid.out.frame # ErrorChunk)
    /\ [][grid'.emits # grid.emits
            => /\ entries[grid'.out.inst].alive
               /\ entries[grid'.out.inst].error = NoError
               /\ ~task[grid'.out.inst].start_failed
               /\ grid'.out.frame = entries[grid'.out.inst].frame
               /\ grid'.out.frame \in 1..MaxFrames]_vars

\* the grid keeps emitting records of one camera after the source of another
\* camera of the same request failed to start
C31_Witness ==
    /\ grid.emits > 0
    /\ \E pid \in Range(grid.ids) :
          /\ grid.entry[pid] # NoInst
          /\ task[grid.entry[pid]].start_failed
          /\ grid.out.pid # pid

\* C32: the grid generator ends at the first poll cycle that starts after the
\* client has disconnected, and at the end of the first cycle that finds every
\* tracked producer dead, without emitting a record in either; once ended it
\* does nothing more; it ends for no other reason.
C32_GridTerminates ==
    /\ [](grid.pc \in {"loop", "mid"} => grid.order # <<>>)
    /\ [][ /\ (grid.pc = "done" => grid' = grid)
           /\ ((grid.pc = "loop" /\ grid.gone /\ grid' # grid)
               => (grid'.pc = "done" /\ grid'.emits = grid.emits))
           /\ ((GridCycle /\ \A pid \in Range(grid.order) : ~entries[grid.entry[pid]].alive)
               => (grid'.pc = "done" /\ grid'.order = <<>> /\ grid'.emits = grid.emits))
           /\ ((grid.pc \in {"loop", "mid"} /\ grid'.pc = "done")
               => (grid'.gone \/ grid'.order = <<>>))
           /\ (((GridCycle \/ GridResume) /\ grid'.order # <<>>)
               => grid'.pc \in {"loop", "mid"})
         ]_vars

\* the generator has ended on a disconnection it found at the start of a
\* cycle, after emitting records and with live cameras still in its rotation
C32_Witness ==
    /\ grid.pc = "done"
    /\ grid.gone
    /\ grid.emits > 0
    /\ \E pid \in Range(grid.order) : entries[grid.entry[pid]].alive

\* C33: a viewer bound to a dead instance exits at its next poll without
\* yielding; every frame a viewer yields is the current frame of its own
\* instance, taken while that instance is alive; a viewer never changes the
\* instance it is bound to, whatever replaces it in the registry.
C33_ViewerExitsOnDeath ==
    [][\A v \in Viewers :
          /\ (viewers[v].entry # NoInst => viewers'[v].entry = viewers[v].entry)
          /\ ((ViewerPoll(v) /\ ~entries[viewers[v].entry].alive)
              => (viewers'[v].pc = "done" /\ viewers'[v].yields = viewers[v].yields))
          /\ (viewers'[v].yields # viewers[v].yields
              => (/\ entries[viewers[v].entry].alive
                  /\ viewers'[v].out_frame = entries[viewers[v].entry].frame
                  /\ viewers'[v].out_seq = entries[viewers[v].entry].frame_seq))
      ]_vars

\* a viewer that yielded frames has exited on its dead instance while a
\* replacement instance of the same camera is live and has published
C33_Witness ==
    \E v \in Viewers :
        /\ viewers[v].pc = "done"
        /\ viewers[v].yields > 0
        /\ ~entries[viewers[v].entry].alive
        /\ LET r == streams[entries[viewers[v].entry].cam]
           IN /\ r # NoInst
              /\ r # viewers[v].entry
              /\ entries[r].alive
              /\ entries[r].frame_seq > 0

C35_DeadLeavesRegistry ==
    /\ \A i \in Insts :
          (i \in Created /\ ~entries[i].alive /\ streams[entries[i].cam] = i)
             ~> (i \in Created /\ streams[entries[i].cam] # i)
    /\ [][\A i \in Created :
             (~entries[i].alive /\ streams[entries[i].cam] # i)
                => streams'[entries[i].cam] # i]_vars

\* a producer found its instance idle and marked it dead; the registry still
\* references the instance while the producer waits for its source to close
C35_Witness ==
    \E i \in Created :
        /\ ~entries[i].alive
        /\ streams[entries[i].cam] = i
        /\ task[i].pc = "closing"

\* C36: no call and no producer cleanup ever finds the hub lock taken when it
\* asks for it, stop waits for the cancelled producer with the lock released,
\* and every task that asks for the lock obtains it and releases it again.
C36_DeadlockFreedom ==
    /\ [](Stmt = "acquire" => exec.lock = Nobody)
    /\ [](Stmt = "wait" => exec.lock = Nobody)
    /\ (Stmt = "acquire") ~> (exec.lock # Nobody)
    /\ (exec.lock # Nobody) ~> (exec.lock = Nobody)

\* the cleanup of a cancelled producer asks for the lock while the stop call
\* that cancelled it is suspended in wait_for
C36_Witness ==
    /\ exec.who = "producer" /\ Stmt = "acquire"
    /\ exec.lock = Nobody
    /\ waits[exec.entry] # NoWait

\* C37: while a replacement producer is live and registered, no step of
\* another task (the teardown of the source it replaced) removes the status
\* entries of its camera: the start time stays, and so does the last frame its
\* own source recorded.
C37_TeardownKeepsReplacementStatus ==
    [][\A c \in Cams :
          LET r == streams[c] IN
          (/\ r # NoInst
           /\ entries[r].alive
           /\ streams'[c] = r
           /\ task'[r] = task[r])
          => /\ (Reports(c).uptime => Reports(c)'.uptime)
             /\ (status[c].frame = r => status'[c].frame = r)
      ]_vars

\* C38: a poll of a viewer whose live instance has published nothing
\* (frame_seq 0, frame absent) leaves the viewer polling and yields nothing; the
\* first poll that finds a published frame yields that frame; a poll of a live
\* instance ends the viewer only when the frame is absent and frame_seq is
\* beyond the viewer's seen_seq.
C38_WaitsForFirstFrame ==
    [][\A v \in Viewers :
          LET w == viewers[v]
              e == entries[w.entry]
          IN (ViewerPoll(v) /\ e.alive)
             => /\ ((e.frame_seq = 0 /\ e.frame = NoFrame)
                    => (viewers'[v].pc = "poll" /\ viewers'[v].yields = w.yields))
                /\ ((w.seen_seq = 0 /\ w.yields = 0 /\ e.frame_seq > 0 /\ e.frame # NoFrame)
                    => (/\ viewers'[v].pc = "poll"
                        /\ viewers'[v].yields = 1
                        /\ viewers'[v].out_frame = e.frame))
                /\ (viewers'[v].pc = "done"
                    => (e.frame = NoFrame /\ e.frame_seq > w.seen_seq))
      ]_vars

\* a viewer has polled its live instance before the first publication, is
\* still polling, and the instance has published its first frame since
C38_Witness ==
    \E v \in Viewers :
        /\ viewers[v].pc = "poll"
        /\ viewers[v].last_iter > 0
        /\ viewers[v].seq = 0
        /\ viewers[v].yields = 0
        /\ entries[viewers[v].entry].alive
        /\ entries[viewers[v].entry].frame_seq = 1
        /\ entries[viewers[v].entry].frame # NoFrame

\* C39: every record the grid generator yields for a camera carries a
\* frame_seq greater than that of the last record it yielded for that camera,
\* one record per step; a poll cycle over a camera whose frame_seq is not beyond
\* the last one yielded yields no record for it.
C39_OneRecordPerSeq ==
    [][/\ grid'.emits # grid.emits
          => /\ grid'.emits = grid.emits + 1
             /\ grid'.out.pid \in Ids
             /\ grid'.out.seq > grid.sent[grid'.out.pid]
             /\ grid'.out.seq = entries[grid.entry[grid'.out.pid]].frame_seq
             /\ grid'.sent = [grid.sent EXCEPT ![grid'.out.pid] = grid'.out.seq]
       /\ grid'.emits = grid.emits => grid'.sent = grid.sent
       /\ \A pid \in Ids :
             (/\ GridCycle \/ GridResume
              /\ grid.entry[pid] # NoInst
              /\ entries[grid.entry[pid]].frame_seq <= grid.sent[pid])
             => grid'.sent[pid] = grid.sent[pid]
      ]_vars

\* two records were yielded for one camera, and the last complete poll cycle
\* yielded nothing although that camera is live and in the rotation
C39_Witness ==
    \E pid \in Ids :
        /\ grid.pc = "loop"
        /\ ~grid.sent_any
        /\ grid.sent[pid] = 2
        /\ pid \in Range(grid.order)
        /\ entries[grid.entry[pid]].alive
        /\ entries[grid.entry[pid]].frame_seq = 2
        /\ entries[grid.entry[pid]].last_accessed = grid.now

\* the bytes of the input the parser has read
Consumed == SubSeq(jp.input, 1, Len(jp.input) - Len(jp.rest))

\* C40: on any byte stream read in chunks of any sizes, every frame emitted
\* begins with FFD8 and ends with the first FFD9 at offset 2 or later; after
\* each read the buffer is at most one byte long, or begins with FFD8 and has no
\* FFD9 at offset 2 or later; and frames emitted and buffer are those of the
\* parser that has read the same bytes as one chunk.
C40_ParserInvariant ==
    jp.pc = "reading" =>
        /\ \A k \in 1..Len(jp.out) :
              LET f == jp.out[k]
              IN /\ Len(f) >= 4
                 /\ SubSeq(f, 1, 2) = jpeg_start
                 /\ Find(f, jpeg_end, 3) = Len(f) - 1
        /\ \/ Len(jp.buffer) <= 1
           \/ /\ SubSeq(jp.buffer, 1, 2) = jpeg_start
              /\ Find(jp.buffer, jpeg_end, 3) = 0
        /\ LET whole == Extract(Consumed, <<>>)
           IN jp.out = whole.out /\ jp.buffer = whole.buffer

\* a stream with bytes before its first start marker was read to its end one
\* byte at a time, every marker split across two reads: a frame was emitted and
\* the byte kept is the 0xFF that may begin a marker
C40_Witness ==
    /\ jp.pc = "reading" /\ jp.rest = <<>> /\ jp.bytewise
    /\ Len(jp.input) = MaxInput
    /\ Find(jp.input, jpeg_start, 1) > 1
    /\ Len(jp.out) >= 1
    /\ jp.buffer = <<255>>

====
